---- MODULE Spec2Model ----
(***************************************************************************)
(* blackjack-sim: the round-resolution engine (blackjack_sim/engine.py),   *)
(* the hand valuation (blackjack_sim/core.py) and the dealer policy        *)
(* (blackjack_sim/strategy.py) as a state machine.                         *)
(*                                                                         *)
(* One behaviour is one call of Game.play.  The player's Strategy is an    *)
(* external collaborator: get_bet and get_action return any value of their *)
(* type.  random.shuffle followed by pop() is a draw of any card that is   *)
(* still in the shoe.  Money is kept in whole units; every bet is even, so *)
(* payout * bet and 0.5 * bet are whole numbers, as the floats are.        *)
(***************************************************************************)
EXTENDS Integers, Sequences, FiniteSets, TLC

VARIABLES
    deck,           \* the cards one deck holds: face -> number of cards
    options,        \* Game._options (GameOptions, fixed for the session)
    strategy,       \* Game._strategy: the class of the player's Strategy
    bankroll,       \* Game._bankroll
    total_bet,      \* Game._total_bet
    shoe,           \* Game._shoe: face -> number of cards of that face left
    upcard,         \* Game._upcard (0 is None)
    pc,             \* position in Game.play / _play_round
    error,          \* exception that left Game.play ("none" if none)
    initial,        \* play's bankroll argument
    bet,            \* the bet of the round in progress (0 between rounds)
    player_hand,    \* _play_round's player_hand as dealt
    dealer_hand,    \* _play_round's dealer_hand
    stack,          \* pending _play_hand work; the head is the active call
    hands,          \* terminal hands returned so far by the active resolution
    player_hands,   \* _play_round's player_hands
    cmp_i,          \* index of the settlement loop over player_hands
    result,         \* what play returned: <<bankroll, ev numerator, ev denominator>>
    rounds,         \* rounds started in this session
    pre_bet,        \* history: bankroll before the round's bet was deducted
    round_draws,    \* history: cards drawn in the round
    round_charged,  \* history: sum of the _make_bet charges of the round
    round_actions,  \* history: get_action calls on the player's strategy in the round
    dealer_calls,   \* history: get_action calls on Dealer in the round
    compare_calls,  \* history: _compare_hands calls in the round
    last,           \* history: the last get_action answer and whether it was legal
    asked           \* history: the last get_bet answer (0 is None or 0)

vars == <<deck, options, strategy, bankroll, total_bet, shoe, upcard, pc, error, initial, bet,
          player_hand, dealer_hand, stack, hands, player_hands, cmp_i, result,
          rounds, pre_bet, round_draws, round_charged, round_actions,
          dealer_calls, compare_calls, last, asked>>

----------------------------------------------------------------------------
(* Bounds of the model *)

\* rounds the strategy plays before get_bet ends the session
MaxRounds == 2
\* largest split depth configured (GameOptions.max_split ranges over 0..MaxMaxSplit)
MaxMaxSplit == 2

\* largest num_decks of the Shoe objects of SpecShoe
MaxDecks == 2
\* most cards appended to the Hand of SpecHand
MaxHandLen == 4

\* most cards of the Hand of SpecDealt, and the suits its cards come in
MaxDealt == 3
MaxSuits == 2

\* One deck of the model: how many cards of each face it holds.  Shoe builds
\* four suits of thirteen faces; the model keeps eight cards of four faces
\* (a pair of aces, a pair of kings, three nines and one low card), so that
\* every order of the shuffle can be followed.
DeckOf(low) ==
    [f \in {low, "9", "K", "A"} |-> IF f = "9" THEN 3 ELSE IF f = low THEN 1 ELSE 2]
\* the deck of Spec: its low card is a six (ace and six is a soft 17)
MainDeck == DeckOf("6")
\* the deck of SpecExample: its low card is a two
ExampleDeck == DeckOf("2")

\* the deck of SpecAces: three aces, so that a split ace can draw an ace
AcesDeck == [f \in {"6", "9", "K", "A"} |-> IF f = "A" THEN 3 ELSE IF f = "6" THEN 1 ELSE 2]

\* what get_bet may return: 0 stands for every falsy answer (None, 0)
Bets == {0, 10}
\* play's bankroll argument
Bankrolls == {10, 30}

----------------------------------------------------------------------------
(* core.py *)

HIT == "HIT"
STAND == "STAND"
SURRENDER == "SURRENDER"
DOUBLE == "DOUBLE"
SPLIT == "SPLIT"
Action == {HIT, STAND, SURRENDER, DOUBLE, SPLIT}

\* Shoe._FACES
FACES == <<"2", "3", "4", "5", "6", "7", "8", "9", "T", "J", "Q", "K", "A">>
\* Shoe._SUITS, by name
SUITS == <<"s", "h", "d", "c">>

\* int(face) for the numeral faces
IntOfFace(face) ==
    CASE face = "2" -> 2 [] face = "3" -> 3 [] face = "4" -> 4 [] face = "5" -> 5
      [] face = "6" -> 6 [] face = "7" -> 7 [] face = "8" -> 8 [] face = "9" -> 9

FaceValue(face) ==
    IF face = "A" THEN 11
    ELSE IF face \in {"T", "J", "Q", "K"} THEN 10
    ELSE IntOfFace(face)

\* Card(f"{face}{suit}", value); name keeps name[0], the only part the engine reads
Card(face) == [name |-> face, value |-> FaceValue(face)]

is_ace(c) == c.value = 11

Hand(cards, wager) == [cards |-> cards, wager |-> wager, surrender |-> FALSE]

RECURSIVE SumValues(_)
SumValues(cards) ==
    IF cards = <<>> THEN 0 ELSE Head(cards).value + SumValues(Tail(cards))

RECURSIVE CountAces(_)
CountAces(cards) ==
    IF cards = <<>> THEN 0
    ELSE (IF is_ace(Head(cards)) THEN 1 ELSE 0) + CountAces(Tail(cards))

\* ReduceAces taking 11 off for each ace it reduces
RECURSIVE ReduceAces_ByEleven(_, _)
ReduceAces_ByEleven(value, ace_count) ==
    IF value > 21 /\ ace_count # 0
    THEN ReduceAces_ByEleven(value - 11, ace_count - 1)
    ELSE <<value, ace_count > 0>>

\* ReduceAces with an `if` for the `while`: at most one ace is reduced
ReduceAces_Once(value, ace_count) ==
    IF value > 21 /\ ace_count # 0
    THEN <<value - 10, ace_count - 1 > 0>>
    ELSE <<value, ace_count > 0>>

\* the while loop of Hand._value
RECURSIVE ReduceAces(_, _)
ReduceAces(value, ace_count) ==
    IF value > 21 /\ ace_count # 0
    THEN ReduceAces(value - 10, ace_count - 1)
    ELSE <<value, ace_count > 0>>

_value(hand) == ReduceAces(SumValues(hand.cards), CountAces(hand.cards))
value(hand) == _value(hand)[1]
is_soft(hand) == _value(hand)[2]
\* has_ace finding no ace
has_ace_Never(hand) == FALSE

has_ace(hand) == \E i \in 1..Len(hand.cards) : is_ace(hand.cards[i])
is_bust(hand) == value(hand) > 21
\* is_blackjack true of two-card hands only
is_blackjack_TwoCards(hand) == value(hand) = 21 /\ Len(hand.cards) = 2

is_blackjack(hand) == value(hand) = 21

\* name[0] of a card name f"{face}{suit}", or of a face standing for it
NameHead(name) ==
    CHOOSE f \in {FACES[i] : i \in 1..Len(FACES)} :
        \E suit \in {SUITS[j] : j \in 1..Len(SUITS)} \cup {""} : name = f \o suit

\* can_split comparing the values of the cards, not their names
can_split_ByValue(hand) ==
    (Len(hand.cards) = 2) /\ (hand.cards[1].value = hand.cards[2].value)

can_split(hand) ==
    /\ Len(hand.cards) = 2
    /\ NameHead(hand.cards[1].name) = NameHead(hand.cards[2].name)
\* double tripling the wager
double_Tripled(hand) == [hand EXCEPT !.wager = hand.wager * 3]
\* double leaving the wager as it was
double_Forgotten(hand) == hand

double(hand) == [hand EXCEPT !.wager = hand.wager * 2]
surrender(hand) == [hand EXCEPT !.surrender = TRUE]
\* is_surrender seeing no surrender
is_surrender_Never(hand) == FALSE

is_surrender(hand) == hand.surrender

----------------------------------------------------------------------------
(* engine.py: Shoe *)

RECURSIVE SumCounts(_, _)
SumCounts(f, S) ==
    IF S = {} THEN 0
    ELSE LET x == CHOOSE x \in S : TRUE IN f[x] + SumCounts(f, S \ {x})

\* Shoe.__init__: num_decks decks
NewShoe(num_decks) == [f \in DOMAIN deck |-> num_decks * deck[f]]
\* len(shoe)
ShoeLen(s) == SumCounts(s, DOMAIN s)
\* Shoe._num_cards
num_cards(num_decks) == num_decks * ShoeLen(deck)
\* the faces draw() can return
Drawable(s) == {f \in DOMAIN s : s[f] > 0}
\* the shoe after draw() returned a card of face f
Pop(s, f) == [s EXCEPT ![f] = s[f] - 1]

----------------------------------------------------------------------------
(* engine.py: GameOptions *)

\* payout: float = 1.5, kept as PayoutNum / PayoutDen
PayoutNum == 3
PayoutDen == 2
\* min_bet: int = 10
DefaultMinBet == 10
\* shoe_min_percent: float = 20.0
DefaultShoeMinPercent == 20
\* max_split: int = 2
DefaultMaxSplit == 2

\* GameOptions(): the defaults, with one deck
DefaultOptions ==
    [min_bet |-> DefaultMinBet,
     num_decks |-> 1,
     shoe_min_percent |-> DefaultShoeMinPercent,
     hit_soft_seventeen |-> FALSE,
     double_after_split |-> TRUE,
     late_surrender |-> TRUE,
     max_split |-> DefaultMaxSplit]

\* the rule sets of Spec
GameOptions ==
    [min_bet : {DefaultMinBet},
     num_decks : {1},
     shoe_min_percent : {DefaultShoeMinPercent},
     hit_soft_seventeen : BOOLEAN,
     double_after_split : BOOLEAN,
     late_surrender : BOOLEAN,
     max_split : 0..MaxMaxSplit]

\* PayoutTimes with the natural paid even money
PayoutTimes_Even(b) == b

\* options.payout * b
PayoutTimes(b) == (PayoutNum * b) \div PayoutDen
\* 0.5 * b
HalfOf(b) == b \div 2

\* AtCutoff never stopping the session
AtCutoff_Never(s, opts) == FALSE

\* AtCutoff stopping only below the cutoff
AtCutoff_Strict(s, opts) ==
    ShoeLen(s) * 100 < opts.shoe_min_percent * num_cards(opts.num_decks)

\* Shoe.percent_full() <= shoe_min_percent, without the division
AtCutoff(s, opts) ==
    ShoeLen(s) * 100 <= opts.shoe_min_percent * num_cards(opts.num_decks)

----------------------------------------------------------------------------
(* strategy.py: Dealer *)

\* DealerGetAction taking every soft hand for a soft 17
DealerGetAction_AnySoft(hand, hit_soft_seventeen) ==
    IF is_soft(hand)
    THEN (IF hit_soft_seventeen THEN HIT ELSE STAND)
    ELSE IF value(hand) < 17 THEN HIT
    ELSE STAND

\* Dealer.get_action of the second copy of strategy.py (src/src)
DealerGetActionAlt(hand, hit_soft_seventeen) ==
    IF value(hand) < 17 THEN HIT
    ELSE IF value(hand) > 17 THEN STAND
    ELSE IF is_soft(hand) /\ hit_soft_seventeen THEN HIT
    ELSE STAND

\* DealerGetAction giving up a 16
DealerGetAction_Surrenders(hand, hit_soft_seventeen) ==
    IF value(hand) = 16 THEN SURRENDER
    ELSE IF is_soft(hand) /\ value(hand) = 17
    THEN (IF hit_soft_seventeen THEN HIT ELSE STAND)
    ELSE IF value(hand) < 17 THEN HIT
    ELSE STAND

\* DealerGetAction standing on 16
DealerGetAction_StandSixteen(hand, hit_soft_seventeen) ==
    IF is_soft(hand) /\ value(hand) = 17
    THEN (IF hit_soft_seventeen THEN HIT ELSE STAND)
    ELSE IF value(hand) < 16 THEN HIT
    ELSE STAND

\* Dealer.get_action past its two assertions
DealerGetAction(hand, hit_soft_seventeen) ==
    IF is_soft(hand) /\ value(hand) = 17
    THEN (IF hit_soft_seventeen THEN HIT ELSE STAND)
    ELSE IF value(hand) < 17 THEN HIT
    ELSE STAND

----------------------------------------------------------------------------
(* strategy.py: Basic *)

\* the dealer upcards (card.value of the first dealer card): 2..10, 11 for an ace
Upcards == 2..11

\* what a table or get_action gives when an assertion fails
AssertionError == "AssertionError"

\* _handle_split splitting nines against a 7 as well
_handle_split_NineSeven(player, dealer, can_surrender, can_double) ==
    IF player = 11 THEN SPLIT
    ELSE IF player = 10 THEN STAND
    ELSE IF player = 9
    THEN (IF 2 <= dealer /\ dealer <= 9 THEN SPLIT ELSE STAND)
    ELSE IF player = 8
    THEN (IF can_surrender /\ dealer = 11 THEN SURRENDER ELSE SPLIT)
    ELSE IF player = 7 THEN (IF dealer <= 7 THEN SPLIT ELSE HIT)
    ELSE IF player = 6 THEN (IF dealer <= 6 THEN SPLIT ELSE HIT)
    ELSE IF player = 5 THEN (IF can_double /\ dealer <= 9 THEN DOUBLE ELSE HIT)
    ELSE IF player = 4 THEN (IF 5 <= dealer /\ dealer <= 6 THEN SPLIT ELSE HIT)
    ELSE IF 2 <= player /\ player <= 3 THEN (IF dealer <= 7 THEN SPLIT ELSE HIT)
    ELSE AssertionError

\* Basic._handle_split: player is the value of one card of the pair
_handle_split(player, dealer, can_surrender, can_double) ==
    IF player = 11 THEN SPLIT
    ELSE IF player = 10 THEN STAND
    ELSE IF player = 9
    THEN (IF (2 <= dealer /\ dealer <= 9) /\ dealer # 7 THEN SPLIT ELSE STAND)
    ELSE IF player = 8
    THEN (IF can_surrender /\ dealer = 11 THEN SURRENDER ELSE SPLIT)
    ELSE IF player = 7 THEN (IF dealer <= 7 THEN SPLIT ELSE HIT)
    ELSE IF player = 6 THEN (IF dealer <= 6 THEN SPLIT ELSE HIT)
    ELSE IF player = 5 THEN (IF can_double /\ dealer <= 9 THEN DOUBLE ELSE HIT)
    ELSE IF player = 4 THEN (IF 5 <= dealer /\ dealer <= 6 THEN SPLIT ELSE HIT)
    ELSE IF 2 <= player /\ player <= 3 THEN (IF dealer <= 7 THEN SPLIT ELSE HIT)
    ELSE AssertionError

\* _handle_soft_total hitting a soft 18 from 10 up only
_handle_soft_total_SevenNine(player, dealer, can_double) ==
    IF player = 11 THEN (IF can_double /\ dealer = 6 THEN DOUBLE ELSE HIT)
    ELSE IF player = 10 THEN AssertionError
    ELSE IF player = 9 THEN STAND
    ELSE IF player = 8 THEN (IF can_double /\ dealer = 6 THEN DOUBLE ELSE STAND)
    ELSE IF player = 7
    THEN (IF dealer > 9 THEN HIT
          ELSE IF 7 <= dealer /\ dealer <= 8 THEN STAND
          ELSE IF can_double THEN DOUBLE ELSE STAND)
    ELSE IF player = 6
    THEN (IF can_double /\ (3 <= dealer /\ dealer <= 6) THEN DOUBLE ELSE HIT)
    ELSE IF 4 <= player /\ player <= 5
    THEN (IF can_double /\ (4 <= dealer /\ dealer <= 6) THEN DOUBLE ELSE HIT)
    ELSE IF 2 <= player /\ player <= 3
    THEN (IF can_double /\ (5 <= dealer /\ dealer <= 6) THEN DOUBLE ELSE HIT)
    ELSE AssertionError

\* Basic._handle_soft_total: player is the value of the card beside the ace
_handle_soft_total(player, dealer, can_double) ==
    IF player = 11 THEN (IF can_double /\ dealer = 6 THEN DOUBLE ELSE HIT)
    ELSE IF player = 10 THEN AssertionError
    ELSE IF player = 9 THEN STAND
    ELSE IF player = 8 THEN (IF can_double /\ dealer = 6 THEN DOUBLE ELSE STAND)
    ELSE IF player = 7
    THEN (IF dealer >= 9 THEN HIT
          ELSE IF 7 <= dealer /\ dealer <= 8 THEN STAND
          ELSE IF can_double THEN DOUBLE ELSE STAND)
    ELSE IF player = 6
    THEN (IF can_double /\ (3 <= dealer /\ dealer <= 6) THEN DOUBLE ELSE HIT)
    ELSE IF 4 <= player /\ player <= 5
    THEN (IF can_double /\ (4 <= dealer /\ dealer <= 6) THEN DOUBLE ELSE HIT)
    ELSE IF 2 <= player /\ player <= 3
    THEN (IF can_double /\ (5 <= dealer /\ dealer <= 6) THEN DOUBLE ELSE HIT)
    ELSE AssertionError

\* _handle_hard_total hitting 16 against a 9
_handle_hard_total_SixteenNine(player, dealer, can_surrender, can_double) ==
    IF player >= 18 THEN STAND
    ELSE IF player = 17
    THEN (IF dealer = 11 THEN (IF can_surrender THEN SURRENDER ELSE STAND)
          ELSE STAND)
    ELSE IF player = 16
    THEN (IF dealer <= 6 THEN STAND
          ELSE IF dealer <= 9 THEN HIT
          ELSE IF can_surrender THEN SURRENDER ELSE HIT)
    ELSE IF player = 15
    THEN (IF dealer <= 6 THEN STAND
          ELSE IF dealer <= 9 THEN HIT
          ELSE IF can_surrender THEN SURRENDER ELSE HIT)
    ELSE IF 13 <= player /\ player <= 14 THEN (IF dealer <= 6 THEN STAND ELSE HIT)
    ELSE IF player = 12
    THEN (IF 4 <= dealer /\ dealer <= 6 THEN STAND ELSE HIT)
    ELSE IF player = 11 THEN (IF can_double THEN DOUBLE ELSE HIT)
    ELSE IF player = 10
    THEN (IF dealer <= 9 THEN (IF can_double THEN DOUBLE ELSE HIT) ELSE HIT)
    ELSE IF player = 9
    THEN (IF 3 <= dealer /\ dealer <= 6
          THEN (IF can_double THEN DOUBLE ELSE HIT)
          ELSE HIT)
    ELSE IF 4 <= player /\ player <= 8 THEN HIT
    ELSE AssertionError

\* Basic._handle_hard_total: player is the value of the hand
_handle_hard_total(player, dealer, can_surrender, can_double) ==
    IF player >= 18 THEN STAND
    ELSE IF player = 17
    THEN (IF dealer = 11 THEN (IF can_surrender THEN SURRENDER ELSE STAND)
          ELSE STAND)
    ELSE IF player = 16
    THEN (IF dealer <= 6 THEN STAND
          ELSE IF dealer <= 8 THEN HIT
          ELSE IF can_surrender THEN SURRENDER ELSE HIT)
    ELSE IF player = 15
    THEN (IF dealer <= 6 THEN STAND
          ELSE IF dealer <= 9 THEN HIT
          ELSE IF can_surrender THEN SURRENDER ELSE HIT)
    ELSE IF 13 <= player /\ player <= 14 THEN (IF dealer <= 6 THEN STAND ELSE HIT)
    ELSE IF player = 12
    THEN (IF 4 <= dealer /\ dealer <= 6 THEN STAND ELSE HIT)
    ELSE IF player = 11 THEN (IF can_double THEN DOUBLE ELSE HIT)
    ELSE IF player = 10
    THEN (IF dealer <= 9 THEN (IF can_double THEN DOUBLE ELSE HIT) ELSE HIT)
    ELSE IF player = 9
    THEN (IF 3 <= dealer /\ dealer <= 6
          THEN (IF can_double THEN DOUBLE ELSE HIT)
          ELSE HIT)
    ELSE IF 4 <= player /\ player <= 8 THEN HIT
    ELSE AssertionError

\* BasicGetAction looking for the ace before the pair
BasicGetAction_SoftFirst(hand, actions, up) ==
    IF up = 0 THEN AssertionError
    ELSE IF is_bust(hand) \/ is_blackjack(hand) THEN AssertionError
    ELSE IF ~({HIT, STAND} \subseteq actions) THEN AssertionError
    ELSE IF Len(hand.cards) = 2 /\ has_ace(hand)
    THEN LET other_card == IF is_ace(hand.cards[2]) THEN hand.cards[1]
                           ELSE hand.cards[2]
         IN  _handle_soft_total(other_card.value, up, DOUBLE \in actions)
    ELSE IF SPLIT \in actions
    THEN _handle_split(hand.cards[1].value, up,
                       SURRENDER \in actions, DOUBLE \in actions)
    ELSE _handle_hard_total(value(hand), up,
                            SURRENDER \in actions, DOUBLE \in actions)

\* BasicGetAction choosing the pair table by the hand, not by the action list
BasicGetAction_ByShape(hand, actions, up) ==
    IF up = 0 THEN AssertionError
    ELSE IF is_bust(hand) \/ is_blackjack(hand) THEN AssertionError
    ELSE IF ~({HIT, STAND} \subseteq actions) THEN AssertionError
    ELSE IF can_split(hand)
    THEN _handle_split(hand.cards[1].value, up,
                       SURRENDER \in actions, DOUBLE \in actions)
    ELSE IF Len(hand.cards) = 2 /\ has_ace(hand)
    THEN LET other_card == IF is_ace(hand.cards[2]) THEN hand.cards[1]
                           ELSE hand.cards[2]
         IN  _handle_soft_total(other_card.value, up, DOUBLE \in actions)
    ELSE _handle_hard_total(value(hand), up,
                            SURRENDER \in actions, DOUBLE \in actions)

\* Basic.get_action(hand, actions, upcard); an upcard of 0 is None
BasicGetAction(hand, actions, up) ==
    IF up = 0 THEN AssertionError
    ELSE IF is_bust(hand) \/ is_blackjack(hand) THEN AssertionError
    ELSE IF ~({HIT, STAND} \subseteq actions) THEN AssertionError
    ELSE IF SPLIT \in actions
    THEN _handle_split(hand.cards[1].value, up,
                       SURRENDER \in actions, DOUBLE \in actions)
    ELSE IF Len(hand.cards) = 2 /\ has_ace(hand)
    THEN LET other_card == IF is_ace(hand.cards[2]) THEN hand.cards[1]
                           ELSE hand.cards[2]
         IN  _handle_soft_total(other_card.value, up, DOUBLE \in actions)
    ELSE _handle_hard_total(value(hand), up,
                            SURRENDER \in actions, DOUBLE \in actions)

----------------------------------------------------------------------------
(* strategy.py: Manual and Training; tui.py: ManualTextual *)

\* most lines the user types at one prompt of Manual.get_action
MaxKeys == 2

\* str(action).lower() without its brackets: "[H]it" is "hit"
_get_action_str_long_form(a) ==
    CASE a = HIT -> "hit"
      [] a = STAND -> "stand"
      [] a = SURRENDER -> "surrender"
      [] a = DOUBLE -> "double"
      [] a = SPLIT -> "split"

\* the letter between the brackets of str(action).lower(): "Su[r]render" is "r"
_get_action_str_short_form(a) ==
    CASE a = HIT -> "h"
      [] a = STAND -> "s"
      [] a = SURRENDER -> "r"
      [] a = DOUBLE -> "d"
      [] a = SPLIT -> "p"

\* what input() gives once stripped and lowered: the names and letters of the
\* five actions, an empty line and a line that names nothing
Keys == {_get_action_str_long_form(a) : a \in Action}
        \cup {_get_action_str_short_form(a) : a \in Action}
        \cup {"", "x"}
\* the lines typed at one prompt, in order
KeySeqs == UNION {[1..n -> Keys] : n \in 1..MaxKeys}

\* the action of `actions` that a line names, if any
Named(line, actions) ==
    {a \in actions : line \in {_get_action_str_long_form(a),
                               _get_action_str_short_form(a)}}

\* the loop of Manual.get_action over the lines typed: the first line that
\* names a member of `actions` is answered, the lines before it are refused;
\* "prompt" when every line was refused and the loop still waits
RECURSIVE ManualLoop(_, _)
ManualLoop(lines, actions) ==
    IF lines = <<>> THEN "prompt"
    ELSE IF Named(Head(lines), actions) # {}
    THEN CHOOSE a \in Named(Head(lines), actions) : TRUE
    ELSE ManualLoop(Tail(lines), actions)

\* Manual.get_action(hand, actions): what the call can return or raise, over
\* everything the user can type until a line is accepted
ManualGetAction(hand, actions) ==
    IF actions = {} THEN {AssertionError}
    ELSE IF is_bust(hand) \/ is_blackjack(hand) THEN {AssertionError}
    ELSE {ManualLoop(lines, actions) : lines \in KeySeqs} \ {"prompt"}

\* Training.get_action with Basic as the other strategy: the manual answer
\* is returned once the other strategy has answered too
TrainingGetAction(hand, actions, up) ==
    LET manual == ManualGetAction(hand, actions)
    IN  IF manual = {AssertionError} THEN manual
        ELSE IF BasicGetAction(hand, actions, up) = AssertionError
        THEN {AssertionError}
        ELSE manual

\* what the user can do at the prompt of Manual.get_bet: press CTRL-C, press
\* ENTER, or type a line that is a number or is not
Interrupt == "^C"
BetLines == {Interrupt, "", "x", "0", "4", "10", "-10"}
\* int(bet_str) on the lines that are numbers; the others raise ValueError
IntOf == [line \in {"0", "4", "10", "-10"} |->
            CASE line = "0" -> 0
              [] line = "4" -> 4
              [] line = "10" -> 10
              [] line = "-10" -> 0 - 10]

\* Manual.get_bet(min_bet, bankroll) when the user does `line`; 0 is None
ManualGetBet(line, min_bet) ==
    IF line = Interrupt THEN 0
    ELSE IF line \notin DOMAIN IntOf THEN min_bet
    ELSE IntOf[line]

\* the ids of the buttons of the screens
Buttons == {"hit", "stand", "split", "surrender", "double", "ok", "quit"}

\* Blackjack.any_button while an action is awaited: the action whose name is
\* the id of the button, "none" for the buttons that answer nothing
any_button(btn_id) ==
    IF btn_id \in {"hit", "stand", "split", "surrender", "double"}
    THEN CHOOSE a \in Action : btn_id = _get_action_str_long_form(a)
    ELSE "none"

----------------------------------------------------------------------------
(* engine.py: Game *)

\* LegalActions offering SURRENDER at any split depth
LegalActions_SurrenderAnyDepth(hand, b, num_split, bank, opts) ==
    {HIT, STAND}
    \cup (IF Len(hand.cards) = 2 /\ opts.late_surrender
          THEN {SURRENDER} ELSE {})
    \cup (IF Len(hand.cards) = 2 /\ bank >= b
             /\ (opts.double_after_split \/ num_split = 0)
          THEN {DOUBLE} ELSE {})
    \cup (IF Len(hand.cards) = 2 /\ bank >= b
             /\ can_split(hand) /\ num_split < opts.max_split
          THEN {SPLIT} ELSE {})

\* LegalActions offering DOUBLE after a split whatever double_after_split is
LegalActions_DoubleAnyDepth(hand, b, num_split, bank, opts) ==
    {HIT, STAND}
    \cup (IF Len(hand.cards) = 2 /\ opts.late_surrender /\ num_split = 0
          THEN {SURRENDER} ELSE {})
    \cup (IF Len(hand.cards) = 2 /\ bank >= b
          THEN {DOUBLE} ELSE {})
    \cup (IF Len(hand.cards) = 2 /\ bank >= b
             /\ can_split(hand) /\ num_split < opts.max_split
          THEN {SPLIT} ELSE {})

\* LegalActions allowing one split more than max_split
LegalActions_SplitOffByOne(hand, b, num_split, bank, opts) ==
    {HIT, STAND}
    \cup (IF Len(hand.cards) = 2 /\ opts.late_surrender /\ num_split = 0
          THEN {SURRENDER} ELSE {})
    \cup (IF Len(hand.cards) = 2 /\ bank >= b
             /\ (opts.double_after_split \/ num_split = 0)
          THEN {DOUBLE} ELSE {})
    \cup (IF Len(hand.cards) = 2 /\ bank >= b
             /\ can_split(hand) /\ num_split <= opts.max_split
          THEN {SPLIT} ELSE {})

\* LegalActions offering SPLIT whatever the bankroll
LegalActions_SplitOnCredit(hand, b, num_split, bank, opts) ==
    {HIT, STAND}
    \cup (IF Len(hand.cards) = 2 /\ opts.late_surrender /\ num_split = 0
          THEN {SURRENDER} ELSE {})
    \cup (IF Len(hand.cards) = 2 /\ bank >= b
             /\ (opts.double_after_split \/ num_split = 0)
          THEN {DOUBLE} ELSE {})
    \cup (IF Len(hand.cards) = 2
             /\ can_split(hand) /\ num_split < opts.max_split
          THEN {SPLIT} ELSE {})

\* LegalActions offering SPLIT at any split depth
LegalActions_SplitAnyDepth(hand, b, num_split, bank, opts) ==
    {HIT, STAND}
    \cup (IF Len(hand.cards) = 2 /\ opts.late_surrender /\ num_split = 0
          THEN {SURRENDER} ELSE {})
    \cup (IF Len(hand.cards) = 2 /\ bank >= b
             /\ (opts.double_after_split \/ num_split = 0)
          THEN {DOUBLE} ELSE {})
    \cup (IF Len(hand.cards) = 2 /\ bank >= b /\ can_split(hand)
          THEN {SPLIT} ELSE {})

\* LegalActions without the two-card condition on DOUBLE
LegalActions_DoubleAnyLength(hand, b, num_split, bank, opts) ==
    {HIT, STAND}
    \cup (IF Len(hand.cards) = 2 /\ opts.late_surrender /\ num_split = 0
          THEN {SURRENDER} ELSE {})
    \cup (IF bank >= b /\ (opts.double_after_split \/ num_split = 0)
          THEN {DOUBLE} ELSE {})
    \cup (IF Len(hand.cards) = 2 /\ bank >= b
             /\ can_split(hand) /\ num_split < opts.max_split
          THEN {SPLIT} ELSE {})

\* the list `actions` that _play_hand builds, as a set
LegalActions(hand, b, num_split, bank, opts) ==
    {HIT, STAND}
    \cup (IF Len(hand.cards) = 2 /\ opts.late_surrender /\ num_split = 0
          THEN {SURRENDER} ELSE {})
    \cup (IF Len(hand.cards) = 2 /\ bank >= b
             /\ (opts.double_after_split \/ num_split = 0)
          THEN {DOUBLE} ELSE {})
    \cup (IF Len(hand.cards) = 2 /\ bank >= b
             /\ can_split(hand) /\ num_split < opts.max_split
          THEN {SPLIT} ELSE {})

\* the legal actions of the pending call fr
LegalNowOf(fr) == LegalActions(fr.hand, fr.bet, fr.num_split, bankroll, options)

\* a pending call _play_hand(strategy, hand, bet, num_split) ("play"), or the
\* second pass of the SPLIT loop, whose new hand has not drawn yet ("split")
Frame(kind, hand, b, num_split) ==
    [kind |-> kind, hand |-> hand, bet |-> b, num_split |-> num_split]

AddCard(hand, face) == [hand EXCEPT !.cards = Append(hand.cards, Card(face))]

\* PlayResult with ev taken from the final bankroll, not from the gain
PlayResult_FromZero(bank, total) ==
    IF total # 0 THEN <<bank, bank, total>> ELSE <<bank, 0, 1>>

\* the tuple play returns: the bankroll and ev as a fraction
PlayResult(bank, total) ==
    IF total # 0 THEN <<bank, bank - initial, total>> ELSE <<bank, 0, 1>>

NoResult == <<>>
NoHand == Hand(<<>>, 0)

\* the classes of strategy.py and tui.py that Game._strategy can be; Strategy
\* stands for any implementation of the interface, NoStrategy for None
Strategies == {"Strategy", "Basic", "Manual", "Training", "ManualTextual"}
NoStrategy == "None"

\* play(strat, bank) of Game(opts) up to its loop, with decks d
InitGame(d, opts, bank, strat) ==
    /\ deck = d
    /\ options = opts
    /\ strategy = strat
    /\ initial = bank
    /\ bankroll = initial
    /\ total_bet = 0
    /\ shoe = NewShoe(options.num_decks)
    /\ upcard = 0
    /\ pc = "bet"
    /\ error = "none"
    /\ bet = 0
    /\ player_hand = NoHand
    /\ dealer_hand = NoHand
    /\ stack = <<>>
    /\ hands = <<>>
    /\ player_hands = <<>>
    /\ cmp_i = 1
    /\ result = NoResult
    /\ rounds = 0
    /\ pre_bet = initial
    /\ round_draws = 0
    /\ round_charged = 0
    /\ round_actions = 0
    /\ dealer_calls = 0
    /\ compare_calls = 0
    /\ last = [who |-> "none", action |-> "none", legal |-> TRUE]
    /\ asked = 0

\* play(strategy, bank) for a strategy that may answer anything
InitWith(d, opts, bank) == InitGame(d, opts, bank, "Strategy")

Init == \E opts \in GameOptions, bank \in Bankrolls : InitWith(MainDeck, opts, bank)

\* _make_bet(amount); amount 0 leaves the money alone
Charge(amount) ==
    /\ bankroll' = bankroll - amount
    /\ total_bet' = total_bet + amount
    /\ round_charged' = round_charged + amount

\* k cards were drawn, leaving the shoe s
Drew(s, k) ==
    /\ shoe' = s
    /\ round_draws' = round_draws + k

\* the return of play: ev from the final bankroll and the total wagered
Return(bank, total) ==
    /\ pc' = "returned"
    /\ result' = PlayResult(bank, total)

\* _draw_card on an empty shoe, after `amount` had been charged and k cards
\* drawn in this step: the empty Shoe is a falsy list, so `assert self._shoe`
\* fails before Shoe.draw can raise EmptyShoeError, and the AssertionError
\* passes play's `except EmptyShoeError` and leaves play
Exhaust(amount, k) ==
    /\ Charge(amount)
    /\ Drew([f \in DOMAIN shoe |-> 0], k)
    /\ pc' = "raised"
    /\ error' = "AssertionError"
    /\ UNCHANGED <<stack, hands, dealer_hand, result>>

\* Raise with play catching the AssertionError as it catches EmptyShoeError
Raise_Caught ==
    /\ Return(bankroll, total_bet)
    /\ UNCHANGED <<bankroll, total_bet, round_charged, shoe, round_draws,
                   stack, hands, dealer_hand, error>>

\* an AssertionError: nothing catches it, it leaves play
Raise ==
    /\ pc' = "raised"
    /\ error' = "AssertionError"
    /\ UNCHANGED <<bankroll, total_bet, round_charged, shoe, round_draws,
                   stack, hands, dealer_hand, result>>

\* _play_hand calls itself on the same hand
Continue(h) ==
    /\ stack' = <<[Head(stack) EXCEPT !.hand = h]>> \o Tail(stack)
    /\ dealer_hand' = IF pc = "dealer" THEN h ELSE dealer_hand
    /\ UNCHANGED <<hands, pc, result, error>>

\* Done putting the returned hands before the hands returned earlier
Done_Prepend(hs) ==
    /\ hands' = hs \o hands
    /\ stack' = Tail(stack)
    /\ IF pc = "dealer"
       THEN pc' = "compare" /\ dealer_hand' = hs[1]
       ELSE /\ pc' = IF Tail(stack) = <<>> THEN "resolved" ELSE "player"
            /\ UNCHANGED dealer_hand
    /\ UNCHANGED <<result, error>>

\* the active _play_hand call returns the hands hs
Done(hs) ==
    /\ hands' = hands \o hs
    /\ stack' = Tail(stack)
    /\ IF pc = "dealer"
       THEN pc' = "compare" /\ dealer_hand' = hs[1]
       ELSE /\ pc' = IF Tail(stack) = <<>> THEN "resolved" ELSE "player"
            /\ UNCHANGED dealer_hand
    /\ UNCHANGED <<result, error>>

\* the body of _play_hand after the strategy answered a, a legal action
PlayHand(a) ==
    LET fr == Head(stack)
        h == fr.hand
        b == fr.bet
        n == fr.num_split
    IN  CASE a = HIT ->
               IF Drawable(shoe) = {}
               THEN Exhaust(0, 0)
               ELSE \E f \in Drawable(shoe) :
                      LET h2 == AddCard(h, f)
                      IN  /\ Charge(0)
                          /\ Drew(Pop(shoe, f), 1)
                          /\ IF ~(is_bust(h2) \/ is_blackjack(h2))
                             THEN Continue(h2)
                             ELSE Done(<<h2>>)
          [] a = STAND ->
               Charge(0) /\ Drew(shoe, 0) /\ Done(<<h>>)
          [] a = SURRENDER ->
               Charge(0) /\ Drew(shoe, 0) /\ Done(<<surrender(h)>>)
          [] a = DOUBLE ->
               IF bankroll < b
               THEN Raise
               ELSE IF Drawable(shoe) = {}
               THEN Exhaust(b, 0)
               ELSE \E f \in Drawable(shoe) :
                      /\ Charge(b)
                      /\ Drew(Pop(shoe, f), 1)
                      /\ Done(<<double(AddCard(h, f))>>)
          [] a = SPLIT ->
               IF bankroll < b
               THEN Raise
               ELSE IF has_ace(h)
               THEN \* both new hands draw one card and stand
                    IF ShoeLen(shoe) < 2
                    THEN Exhaust(b, ShoeLen(shoe))
                    ELSE \E f1 \in Drawable(shoe) :
                         \E f2 \in Drawable(Pop(shoe, f1)) :
                           /\ Charge(b)
                           /\ Drew(Pop(Pop(shoe, f1), f2), 2)
                           /\ Done(<<AddCard(Hand(<<h.cards[1]>>, b), f1),
                                     AddCard(Hand(<<h.cards[2]>>, b), f2)>>)
               ELSE \* the first new hand draws and is played; the second waits
                    IF Drawable(shoe) = {}
                    THEN Exhaust(b, 0)
                    ELSE \E f \in Drawable(shoe) :
                           /\ Charge(b)
                           /\ Drew(Pop(shoe, f), 1)
                           /\ stack' =
                                <<Frame("play", AddCard(Hand(<<h.cards[1]>>, b), f),
                                        b, n + 1),
                                  Frame("split", Hand(<<h.cards[2]>>, b), b, n)>>
                                \o Tail(stack)
                           /\ UNCHANGED <<hands, pc, dealer_hand, result, error>>

\* play: one pass of the while loop up to the first draw of the round, when
\* get_bet answers a member of B, and nothing (0) once `most` rounds are played
GetBetWithin(B, most) ==
    /\ pc = "bet"
    /\ \E b \in (IF rounds < most THEN B ELSE {0}) :
         /\ asked' = b
         /\ IF b = 0 \/ bankroll < b \/ AtCutoff(shoe, options)
            THEN /\ Return(bankroll, total_bet)
                 /\ UNCHANGED <<bankroll, total_bet, bet, player_hand, dealer_hand,
                                stack, hands, player_hands, cmp_i, rounds, pre_bet,
                                round_draws, round_charged, round_actions,
                                dealer_calls, compare_calls>>
            ELSE /\ bankroll' = bankroll - b
                 /\ total_bet' = total_bet + b
                 /\ bet' = b
                 /\ player_hand' = Hand(<<>>, b)
                 /\ dealer_hand' = Hand(<<>>, 0)
                 /\ pc' = "deal"
                 /\ stack' = <<>>
                 /\ hands' = <<>>
                 /\ player_hands' = <<>>
                 /\ cmp_i' = 1
                 /\ rounds' = rounds + 1
                 /\ pre_bet' = bankroll
                 /\ round_draws' = 0
                 /\ round_charged' = b
                 /\ round_actions' = 0
                 /\ dealer_calls' = 0
                 /\ compare_calls' = 0
                 /\ UNCHANGED result
    /\ UNCHANGED <<deck, strategy, options, shoe, upcard, error, initial, last>>

\* Deal drawing the dealer's hole card as an upcard too
Deal_HoleCardUp ==
    /\ pc = "deal"
    /\ IF Drawable(shoe) = {}
       THEN /\ Exhaust(0, 0)
            /\ UNCHANGED <<player_hand, upcard>>
       ELSE \E f \in Drawable(shoe) :
              /\ Drew(Pop(shoe, f), 1)
              /\ IF round_draws \in {0, 2}
                 THEN /\ player_hand' = AddCard(player_hand, f)
                      /\ UNCHANGED dealer_hand
                 ELSE /\ dealer_hand' = AddCard(dealer_hand, f)
                      /\ UNCHANGED player_hand
              /\ upcard' = IF round_draws \in {1, 3} THEN Card(f).value ELSE upcard
              /\ pc' = IF round_draws = 3 THEN "dealt" ELSE "deal"
              /\ UNCHANGED <<bankroll, total_bet, round_charged, stack, hands,
                             result, error>>
    /\ UNCHANGED <<deck, strategy, options, initial, bet, player_hands, cmp_i, rounds, pre_bet,
                   round_actions, dealer_calls, compare_calls, last, asked>>

\* the strategy answers a member of B and leaves after MaxRounds rounds
GetBetFrom(B) == GetBetWithin(B, MaxRounds)

\* play: one pass of the while loop for a strategy that bets nothing or 10
GetBet == GetBetFrom(Bets)

\* play: one pass of the while loop when the strategy is Manual
ManualBet ==
    /\ strategy = "Manual"
    /\ GetBetFrom({ManualGetBet(line, options.min_bet) : line \in BetLines})

\* what a get_bet of any kind may return: a negative bet, nothing, a bet
\* below min_bet, min_bet
AnyBets == {0 - 10, 0, 4, 10}

\* play: one pass of the while loop for a strategy that bets anything and
\* never leaves of its own accord: the cap is the number of cards of the
\* shoe, more rounds than the code can ever start
AnyBetOn == GetBetWithin(AnyBets, num_cards(options.num_decks))

\* _play_round: the four initial draws, player, dealer (upcard), player, dealer
Deal ==
    /\ pc = "deal"
    /\ IF Drawable(shoe) = {}
       THEN /\ Exhaust(0, 0)
            /\ UNCHANGED <<player_hand, upcard>>
       ELSE \E f \in Drawable(shoe) :
              /\ Drew(Pop(shoe, f), 1)
              /\ IF round_draws \in {0, 2}
                 THEN /\ player_hand' = AddCard(player_hand, f)
                      /\ UNCHANGED dealer_hand
                 ELSE /\ dealer_hand' = AddCard(dealer_hand, f)
                      /\ UNCHANGED player_hand
              /\ upcard' = IF round_draws = 1 THEN Card(f).value ELSE upcard
              /\ pc' = IF round_draws = 3 THEN "dealt" ELSE "deal"
              /\ UNCHANGED <<bankroll, total_bet, round_charged, stack, hands,
                             result, error>>
    /\ UNCHANGED <<deck, strategy, options, initial, bet, player_hands, cmp_i, rounds, pre_bet,
                   round_actions, dealer_calls, compare_calls, last, asked>>

\* NaturalCredit paying the player's natural although the dealer has one too
NaturalCredit_NoPush(player, dealer, b) ==
    IF is_blackjack(player) THEN b + PayoutTimes(b) ELSE 0

\* what the natural check credits
NaturalCredit(player, dealer, b) ==
    IF is_blackjack(player) /\ is_blackjack(dealer) THEN b
    ELSE IF is_blackjack(player) /\ ~is_blackjack(dealer) THEN b + PayoutTimes(b)
    ELSE 0

\* Natural looking at the player's hand only
Natural_PlayerOnly ==
    /\ pc = "dealt"
    /\ IF is_blackjack(player_hand)
       THEN /\ bankroll' = bankroll + NaturalCredit(player_hand, dealer_hand, bet)
            /\ pc' = "bet"
            /\ UNCHANGED stack
       ELSE /\ pc' = "player"
            /\ stack' = <<Frame("play", player_hand, bet, 0)>>
            /\ UNCHANGED bankroll
    /\ UNCHANGED <<deck, strategy, options, total_bet, shoe, upcard, error, initial, bet,
                   player_hand, dealer_hand, hands, player_hands, cmp_i, result,
                   rounds, pre_bet, round_draws, round_charged, round_actions,
                   dealer_calls, compare_calls, last, asked>>

\* _play_round: the check for a natural after the deal
Natural ==
    /\ pc = "dealt"
    /\ IF is_blackjack(player_hand) \/ is_blackjack(dealer_hand)
       THEN /\ bankroll' = bankroll + NaturalCredit(player_hand, dealer_hand, bet)
            /\ pc' = "bet"
            /\ UNCHANGED stack
       ELSE /\ pc' = "player"
            /\ stack' = <<Frame("play", player_hand, bet, 0)>>
            /\ UNCHANGED bankroll
    /\ UNCHANGED <<deck, strategy, options, total_bet, shoe, upcard, error, initial, bet,
                   player_hand, dealer_hand, hands, player_hands, cmp_i, result,
                   rounds, pre_bet, round_draws, round_charged, round_actions,
                   dealer_calls, compare_calls, last, asked>>

\* _play_hand for a player hand: the strategy answers any action
PlayerAction ==
    /\ pc = "player"
    /\ Head(stack).kind = "play"
    /\ \E a \in Action :
         LET fr == Head(stack)
             legal == LegalActions(fr.hand, fr.bet, fr.num_split, bankroll, options)
         IN  /\ last' = [who |-> "player", action |-> a, legal |-> a \in legal]
             /\ IF a \notin legal THEN Raise ELSE PlayHand(a)
    /\ round_actions' = round_actions + 1
    /\ UNCHANGED <<deck, strategy, options, upcard, initial, bet, player_hand, player_hands,
                   cmp_i, rounds, pre_bet, dealer_calls, compare_calls, asked>>

\* SplitSecond playing the second new hand at the depth of the split hand
SplitSecond_SameDepth ==
    /\ pc = "player"
    /\ Head(stack).kind = "split"
    /\ IF Drawable(shoe) = {}
       THEN Exhaust(0, 0)
       ELSE \E f \in Drawable(shoe) :
              LET fr == Head(stack)
              IN  /\ Charge(0)
                  /\ Drew(Pop(shoe, f), 1)
                  /\ stack' = <<Frame("play", AddCard(fr.hand, f), fr.bet,
                                      fr.num_split)>> \o Tail(stack)
                  /\ UNCHANGED <<hands, pc, dealer_hand, result, error>>
    /\ UNCHANGED <<deck, strategy, options, upcard, initial, bet, player_hand, player_hands,
                   cmp_i, rounds, pre_bet, round_actions, dealer_calls,
                   compare_calls, last, asked>>

\* the SPLIT loop's second pass: the second new hand draws its card
SplitSecond ==
    /\ pc = "player"
    /\ Head(stack).kind = "split"
    /\ IF Drawable(shoe) = {}
       THEN Exhaust(0, 0)
       ELSE \E f \in Drawable(shoe) :
              LET fr == Head(stack)
              IN  /\ Charge(0)
                  /\ Drew(Pop(shoe, f), 1)
                  /\ stack' = <<Frame("play", AddCard(fr.hand, f), fr.bet,
                                      fr.num_split + 1)>> \o Tail(stack)
                  /\ UNCHANGED <<hands, pc, dealer_hand, result, error>>
    /\ UNCHANGED <<deck, strategy, options, upcard, initial, bet, player_hand, player_hands,
                   cmp_i, rounds, pre_bet, round_actions, dealer_calls,
                   compare_calls, last, asked>>

\* Resolve refunding the surrender and letting the dealer play all the same
Resolve_DealerPlays ==
    /\ pc = "resolved"
    /\ player_hands' = hands
    /\ pc' = "dealer"
    /\ stack' = <<Frame("play", dealer_hand, 0, 0)>>
    /\ hands' = <<>>
    /\ bankroll' = bankroll
                   + (IF Len(hands) = 1 /\ is_surrender(hands[1])
                      THEN HalfOf(bet) ELSE 0)
    /\ UNCHANGED <<deck, strategy, options, total_bet, shoe, upcard, error, initial, bet,
                   player_hand, dealer_hand, cmp_i, result, rounds, pre_bet,
                   round_draws, round_charged, round_actions, dealer_calls,
                   compare_calls, last, asked>>

\* _play_round after the player's hands are resolved
Resolve ==
    /\ pc = "resolved"
    /\ player_hands' = hands
    /\ IF Len(hands) = 1 /\ is_surrender(hands[1])
       THEN /\ bankroll' = bankroll + HalfOf(bet)
            /\ pc' = "bet"
            /\ UNCHANGED <<stack, hands>>
       ELSE /\ pc' = "dealer"
            /\ stack' = <<Frame("play", dealer_hand, 0, 0)>>
            /\ hands' = <<>>
            /\ UNCHANGED bankroll
    /\ UNCHANGED <<deck, strategy, options, total_bet, shoe, upcard, error, initial, bet,
                   player_hand, dealer_hand, cmp_i, result, rounds, pre_bet,
                   round_draws, round_charged, round_actions, dealer_calls,
                   compare_calls, last, asked>>

\* _play_hand for the dealer hand: Dealer.get_action answers
DealerAction ==
    /\ pc = "dealer"
    /\ LET fr == Head(stack)
           legal == LegalActions(fr.hand, fr.bet, fr.num_split, bankroll, options)
           a == DealerGetAction(fr.hand, options.hit_soft_seventeen)
       IN  /\ last' = [who |-> "dealer", action |-> a, legal |-> a \in legal]
           /\ IF is_bust(fr.hand) \/ is_blackjack(fr.hand) \/ a \notin legal
              THEN Raise
              ELSE PlayHand(a)
    /\ dealer_calls' = dealer_calls + 1
    /\ UNCHANGED <<deck, strategy, options, upcard, initial, bet, player_hand, player_hands,
                   cmp_i, rounds, pre_bet, round_actions, compare_calls, asked>>

\* CompareCredit looking at the dealer's bust before the player's
CompareCredit_DealerBustFirst(player, dealer) ==
    IF is_bust(dealer) THEN 2 * player.wager
    ELSE IF is_bust(player) THEN 0
    ELSE IF value(player) > value(dealer) THEN 2 * player.wager
    ELSE IF value(player) = value(dealer) THEN player.wager
    ELSE 0

\* what _compare_hands adds to the bankroll
CompareCredit(player, dealer) ==
    IF is_bust(player) THEN 0
    ELSE IF is_bust(dealer) THEN 2 * player.wager
    ELSE IF value(player) > value(dealer) THEN 2 * player.wager
    ELSE IF value(player) = value(dealer) THEN player.wager
    ELSE 0

\* _play_round: one pass of the loop over player_hands
Compare ==
    /\ pc = "compare"
    /\ bankroll' = bankroll + CompareCredit(player_hands[cmp_i], dealer_hand)
    /\ compare_calls' = compare_calls + 1
    /\ cmp_i' = cmp_i + 1
    /\ pc' = IF cmp_i = Len(player_hands) THEN "bet" ELSE "compare"
    /\ UNCHANGED <<deck, strategy, options, total_bet, shoe, upcard, error, initial, bet,
                   player_hand, dealer_hand, stack, hands, player_hands, result,
                   rounds, pre_bet, round_draws, round_charged, round_actions,
                   dealer_calls, last, asked>>

\* _play_hand for a player hand when the strategy is Basic
BasicAction ==
    /\ pc = "player"
    /\ Head(stack).kind = "play"
    /\ LET fr == Head(stack)
           legal == LegalActions(fr.hand, fr.bet, fr.num_split, bankroll, options)
           a == BasicGetAction(fr.hand, legal, upcard)
       IN  /\ last' = [who |-> "player", action |-> a, legal |-> a \in legal]
           /\ IF a \notin legal THEN Raise ELSE PlayHand(a)
    /\ round_actions' = round_actions + 1
    /\ UNCHANGED <<deck, strategy, options, upcard, initial, bet, player_hand, player_hands,
                   cmp_i, rounds, pre_bet, dealer_calls, compare_calls, asked>>

\* what _play_hand does with the answer a of the player's get_action
Answer(a) ==
    /\ last' = [who |-> "player", action |-> a, legal |-> a \in LegalNowOf(Head(stack))]
    /\ IF a \notin LegalNowOf(Head(stack)) THEN Raise ELSE PlayHand(a)
    /\ round_actions' = round_actions + 1
    /\ UNCHANGED <<deck, strategy, options, upcard, initial, bet, player_hand,
                   player_hands, cmp_i, rounds, pre_bet, dealer_calls,
                   compare_calls, asked>>

\* _play_hand for a player hand when the strategy is Manual or Training: the
\* call returns when a typed line is accepted, or raises
ManualAction ==
    /\ pc = "player"
    /\ Head(stack).kind = "play"
    /\ strategy \in {"Manual", "Training"}
    /\ LET fr == Head(stack)
           legal == LegalNowOf(fr)
       IN  \E a \in (IF strategy = "Manual"
                     THEN ManualGetAction(fr.hand, legal)
                     ELSE TrainingGetAction(fr.hand, legal, upcard)) : Answer(a)

\* _play_hand for a player hand when the strategy is ManualTextual: the call
\* returns the action of the button pressed
TextualAction ==
    /\ pc = "player"
    /\ Head(stack).kind = "play"
    /\ strategy = "ManualTextual"
    /\ \E btn_id \in Buttons :
         any_button(btn_id) # "none" /\ Answer(any_button(btn_id))

Next ==
    \/ GetBet
    \/ Deal
    \/ Natural
    \/ PlayerAction
    \/ SplitSecond
    \/ Resolve
    \/ DealerAction
    \/ Compare

Spec == Init /\ [][Next]_vars

\* the spec's example round: default rules, a bankroll of 30, the deck with a two
InitExample == InitWith(ExampleDeck, DefaultOptions, 30)

SpecExample == InitExample /\ [][Next]_vars

\* a session with three aces in the deck: default rules, a bankroll of 30
InitAces == InitWith(AcesDeck, DefaultOptions, 30)

SpecAces == InitAces /\ [][Next]_vars

\* the shoe_min_percent values of SpecSession: 50 is met exactly by a shoe
\* of four cards, 0 by an empty shoe
Cutoffs == {0, DefaultShoeMinPercent, 50}

\* sessions under the default rules with several shoe cutoffs
InitSession ==
    \E pct \in Cutoffs, bank \in Bankrolls :
        InitWith(MainDeck, [DefaultOptions EXCEPT !.shoe_min_percent = pct], bank)

SpecSession == InitSession /\ [][Next]_vars

----------------------------------------------------------------------------
(* engine.py: a Shoe object on its own, as a list of cards *)

\* the 52 of `self._num_cards = num_decks * 52`
CardsPerDeck == 52

\* Card(f"{face}{suit}", value)
ShoeCard(face, suit) == [name |-> face \o suit, value |-> FaceValue(face)]

\* BuildShoe with a deck that lacks the aces
BuildShoe_NoAces(num_decks) ==
    [i \in 1..(num_decks * Len(SUITS) * (Len(FACES) - 1)) |->
        ShoeCard(FACES[((i - 1) % (Len(FACES) - 1)) + 1],
                 SUITS[(((i - 1) \div (Len(FACES) - 1)) % Len(SUITS)) + 1])]

\* the list Shoe.__init__ builds: for each deck, for each suit, for each face
BuildShoe(num_decks) ==
    [i \in 1..(num_decks * Len(SUITS) * Len(FACES)) |->
        ShoeCard(FACES[((i - 1) % Len(FACES)) + 1],
                 SUITS[(((i - 1) \div Len(FACES)) % Len(SUITS)) + 1])]

\* random.shuffle: of the orders it can produce, the cut of the list at k
Shuffled(cards, k) ==
    [i \in 1..Len(cards) |-> cards[((i - 1 + k) % Len(cards)) + 1]]

\* Shoe.percent_full() as the fraction num / den
percent_full(cards, num_decks) ==
    [num |-> Len(cards) * 100, den |-> num_decks * CardsPerDeck]

\* what the Shoe actions leave alone
ShoeOnly ==
    UNCHANGED <<deck, strategy, options, bankroll, total_bet, upcard, pc, initial, bet,
                dealer_hand, stack, hands, player_hands, cmp_i, result, rounds,
                pre_bet, round_charged, round_actions, dealer_calls,
                compare_calls, last, asked>>

\* Shoe(n): `shoe` is the list itself, player_hand collects the cards drawn
InitShoe ==
    \E n \in 1..MaxDecks :
    \E k \in 0..(n * CardsPerDeck - 1) :
        /\ shoe = Shuffled(BuildShoe(n), k)
        /\ options = [DefaultOptions EXCEPT !.num_decks = n]
        /\ strategy = NoStrategy
        /\ pc = "shoe"
        /\ error = "none"
        /\ player_hand = NoHand
        /\ round_draws = 0
        /\ deck = MainDeck
        /\ initial = 0
        /\ bankroll = 0
        /\ total_bet = 0
        /\ upcard = 0
        /\ bet = 0
        /\ dealer_hand = NoHand
        /\ stack = <<>>
        /\ hands = <<>>
        /\ player_hands = <<>>
        /\ cmp_i = 1
        /\ result = NoResult
        /\ rounds = 0
        /\ pre_bet = 0
        /\ round_charged = 0
        /\ round_actions = 0
        /\ dealer_calls = 0
        /\ compare_calls = 0
        /\ last = [who |-> "none", action |-> "none", legal |-> TRUE]
        /\ asked = 0

\* Shoe.draw on a shoe with cards: list.pop() returns the last card
ShoeDraw ==
    /\ pc = "shoe"
    /\ error = "none"
    /\ shoe # <<>>
    /\ shoe' = SubSeq(shoe, 1, Len(shoe) - 1)
    /\ player_hand' = [player_hand EXCEPT !.cards = Append(@, shoe[Len(shoe)])]
    /\ round_draws' = round_draws + 1
    /\ UNCHANGED error
    /\ ShoeOnly

\* ShoeDrawEmpty returning a sentinel card instead of raising
ShoeDrawEmpty_Sentinel ==
    /\ pc = "shoe"
    /\ error = "none"
    /\ shoe = <<>>
    /\ player_hand' = [player_hand EXCEPT
                         !.cards = Append(@, [name |-> "None", value |-> 0])]
    /\ round_draws' = round_draws + 1
    /\ UNCHANGED <<shoe, error>>
    /\ ShoeOnly

\* Shoe.draw on an empty shoe: pop raises IndexError, draw raises EmptyShoeError
ShoeDrawEmpty ==
    /\ pc = "shoe"
    /\ error = "none"
    /\ shoe = <<>>
    /\ error' = "EmptyShoeError"
    /\ UNCHANGED <<shoe, player_hand, round_draws>>
    /\ ShoeOnly

\* the caller of draw handles the EmptyShoeError and goes on
ShoeCaught ==
    /\ pc = "shoe"
    /\ error = "EmptyShoeError"
    /\ error' = "none"
    /\ UNCHANGED <<shoe, player_hand, round_draws>>
    /\ ShoeOnly

NextShoe ==
    \/ ShoeDraw
    \/ ShoeDrawEmpty
    \/ ShoeCaught

SpecShoe == InitShoe /\ [][NextShoe]_vars

----------------------------------------------------------------------------
(* core.py: a Hand object on its own *)

\* an object on its own, outside any session: p names it
InitUnit(p) ==
    /\ player_hand = NoHand
    /\ pc = p
    /\ options = DefaultOptions
    /\ strategy = NoStrategy
    /\ shoe = <<>>
    /\ error = "none"
    /\ round_draws = 0
    /\ deck = MainDeck
    /\ initial = 0
    /\ bankroll = 0
    /\ total_bet = 0
    /\ upcard = 0
    /\ bet = 0
    /\ dealer_hand = NoHand
    /\ stack = <<>>
    /\ hands = <<>>
    /\ player_hands = <<>>
    /\ cmp_i = 1
    /\ result = NoResult
    /\ rounds = 0
    /\ pre_bet = 0
    /\ round_charged = 0
    /\ round_actions = 0
    /\ dealer_calls = 0
    /\ compare_calls = 0
    /\ last = [who |-> "none", action |-> "none", legal |-> TRUE]
    /\ asked = 0

\* Hand([]): player_hand is the hand
InitHand == InitUnit("hand")

\* hand.append(card), for a card of any face
HandAppend ==
    /\ pc = "hand"
    /\ Len(player_hand.cards) < MaxHandLen
    /\ \E i \in 1..Len(FACES) : player_hand' = AddCard(player_hand, FACES[i])
    /\ UNCHANGED <<shoe, error, round_draws>>
    /\ ShoeOnly

NextHand == HandAppend

SpecHand == InitHand /\ [][NextHand]_vars

----------------------------------------------------------------------------
(* engine.py and strategy.py: sessions played by Basic *)

\* decks of eight cards in pairs of four faces
DeckOfPairs(faces) == [f \in faces |-> 2]
\* the decks of SpecBasic
BasicDecks ==
    {MainDeck, AcesDeck,
     DeckOfPairs({"2", "3", "5", "8"}), DeckOfPairs({"4", "6", "7", "T"})}
\* the rule sets of SpecBasic: the dealer's soft-17 rule is kept at its default
BasicOptions == {opts \in GameOptions : ~opts.hit_soft_seventeen}

\* play(Basic(), bank) under every rule set, and Basic's tables on every hand
InitBasic ==
    \/ \E d \in BasicDecks, opts \in BasicOptions, bank \in Bankrolls :
         InitGame(d, opts, bank, "Basic")
    \/ InitHand

NextBasic ==
    \/ GetBet
    \/ Deal
    \/ Natural
    \/ BasicAction
    \/ SplitSecond
    \/ Resolve
    \/ DealerAction
    \/ Compare
    \/ HandAppend

SpecBasic == InitBasic /\ [][NextBasic]_vars

----------------------------------------------------------------------------
(* strategy.py: the tables of Basic on their own *)

InitTables == InitUnit("table")

\* a call of one table: `last` keeps the arguments and the answer
Answered(table, player, dealer, can_surrender, can_double, a) ==
    /\ pc' = "answered"
    /\ last' = [who |-> table, player |-> player, dealer |-> dealer,
                can_surrender |-> can_surrender, can_double |-> can_double,
                action |-> a, legal |-> TRUE]
    /\ UNCHANGED <<deck, strategy, options, bankroll, total_bet, shoe, upcard, error,
                   initial, bet, player_hand, dealer_hand, stack, hands,
                   player_hands, cmp_i, result, rounds, pre_bet, round_draws,
                   round_charged, round_actions, dealer_calls, compare_calls,
                   asked>>

\* _handle_split(player, dealer, can_surrender, can_double) on a card value
SplitTable ==
    /\ pc = "table"
    /\ \E player \in 2..11, dealer \in Upcards, cs \in BOOLEAN, cd \in BOOLEAN :
         Answered("split", player, dealer, cs, cd,
                  _handle_split(player, dealer, cs, cd))

\* _handle_soft_total(player, dealer, can_double) on a card value
SoftTable ==
    /\ pc = "table"
    /\ \E player \in 2..11, dealer \in Upcards, cd \in BOOLEAN :
         Answered("soft", player, dealer, FALSE, cd,
                  _handle_soft_total(player, dealer, cd))

\* _handle_hard_total(player, dealer, can_surrender, can_double) on a total
HardTable ==
    /\ pc = "table"
    /\ \E player \in 2..21, dealer \in Upcards, cs \in BOOLEAN, cd \in BOOLEAN :
         Answered("hard", player, dealer, cs, cd,
                  _handle_hard_total(player, dealer, cs, cd))

NextTables ==
    \/ SplitTable
    \/ SoftTable
    \/ HardTable

SpecTables == InitTables /\ [][NextTables]_vars

----------------------------------------------------------------------------
(* core.py: a Hand of suited cards *)

\* a Hand of cards as the Shoe names them, face and suit
HandDeal ==
    /\ pc = "hand"
    /\ Len(player_hand.cards) < MaxDealt
    /\ \E i \in 1..Len(FACES), j \in 1..MaxSuits :
         player_hand' = [player_hand EXCEPT
                           !.cards = Append(@, ShoeCard(FACES[i], SUITS[j]))]
    /\ UNCHANGED <<shoe, error, round_draws>>
    /\ ShoeOnly

NextDealt == HandDeal

SpecDealt == InitHand /\ [][NextDealt]_vars

----------------------------------------------------------------------------
(* engine.py: sessions on a shoe with four cards of one rank *)

\* the deck of SpecSplits: the four eights of a deck, so that every hand of a
\* split can be a pair again, with four tens and two aces
EightsDeck == [f \in {"8", "T", "A"} |-> IF f = "A" THEN 2 ELSE 4]
\* play's bankroll argument in SpecSplits: the bet and one, or three, more
SplitBankrolls == {20, 40}

\* play(strategy, bank) of Game(GameOptions(max_split=ms))
InitSplits ==
    \E ms \in 0..MaxMaxSplit, bank \in SplitBankrolls :
       InitWith(EightsDeck, [DefaultOptions EXCEPT !.max_split = ms], bank)

SpecSplits == InitSplits /\ [][Next]_vars

----------------------------------------------------------------------------
(* engine.py, strategy.py and tui.py: sessions played at the keyboard or screen *)

InteractiveStrategies == {"Manual", "Training", "ManualTextual"}

\* play(strat, bank) for each interactive strategy
InitInteractive ==
    \E strat \in InteractiveStrategies, bank \in Bankrolls :
       InitGame(MainDeck, DefaultOptions, bank, strat)

NextInteractive ==
    \/ GetBet
    \/ Deal
    \/ Natural
    \/ ManualAction
    \/ TextualAction
    \/ SplitSecond
    \/ Resolve
    \/ DealerAction
    \/ Compare

SpecInteractive == InitInteractive /\ [][NextInteractive]_vars

----------------------------------------------------------------------------
(* engine.py and strategy.py: sessions with the bets typed at the keyboard *)

\* play(Manual(), bank)
InitBets == \E bank \in Bankrolls : InitGame(MainDeck, DefaultOptions, bank, "Manual")

NextBets ==
    \/ ManualBet
    \/ Deal
    \/ Natural
    \/ ManualAction
    \/ SplitSecond
    \/ Resolve
    \/ DealerAction
    \/ Compare

SpecBets == InitBets /\ [][NextBets]_vars

----------------------------------------------------------------------------
(* engine.py and strategy.py: sessions that go on as long as play lets them *)

\* play(strategy, 30) of Game(GameOptions(shoe_min_percent=0)): only the
\* empty shoe stops the session
InitOn == InitWith(MainDeck, [DefaultOptions EXCEPT !.shoe_min_percent = 0], 30)

NextOn ==
    \/ AnyBetOn
    \/ Deal
    \/ Natural
    \/ PlayerAction
    \/ SplitSecond
    \/ Resolve
    \/ DealerAction
    \/ Compare

\* every callback returns: the strategy answers each call in the end
SpecOn == InitOn /\ [][NextOn]_vars /\ WF_vars(NextOn)

----------------------------------------------------------------------------
(* Properties *)

\* a get_action call is pending on the head of the stack
AtDecision == pc \in {"player", "dealer"} /\ Head(stack).kind = "play"
\* the legal-action set of the pending call
LegalNow ==
    LegalActions(Head(stack).hand, Head(stack).bet, Head(stack).num_split,
                 bankroll, options)
\* this step is a get_action call on the player's strategy
PlayerAnswers == round_actions' = round_actions + 1
\* the round has been played to its end
RoundOver == pc = "bet" /\ rounds > 0
\* the dealer's two cards of the deal
DealtDealer ==
    IF Len(dealer_hand.cards) <= 2 THEN dealer_hand
    ELSE Hand(SubSeq(dealer_hand.cards, 1, 2), 0)

\* C1: when the player's strategy answers an action outside the legal set, an
\* AssertionError is raised with no card drawn and bankroll, total wagered and
\* every hand unchanged; play does not catch it: it never returns after it.
C1_IllegalActionRaises ==
    [][/\ (PlayerAnswers /\ last'.action \notin LegalNow) =>
             /\ pc' = "raised"
             /\ error' = "AssertionError"
             /\ result' = NoResult
             /\ UNCHANGED <<bankroll, total_bet, shoe, round_draws, stack, hands,
                            player_hand, dealer_hand>>
       /\ pc # "raised"]_vars

C1_Witness ==
    /\ pc = "raised"
    /\ error = "AssertionError"
    /\ last.who = "player"
    /\ last.action \notin LegalNow

\* C2: at every decision point SURRENDER is legal exactly when the hand has two
\* cards, late_surrender is enabled and the split depth is 0.
C2_SurrenderLegal ==
    AtDecision =>
        (SURRENDER \in LegalNow <=>
            /\ Len(Head(stack).hand.cards) = 2
            /\ options.late_surrender
            /\ Head(stack).num_split = 0)

C2_Witness ==
    /\ AtDecision
    /\ Len(Head(stack).hand.cards) = 2
    /\ options.late_surrender
    /\ Head(stack).num_split > 0
    /\ SURRENDER \notin LegalNow

\* C3: at every decision point DOUBLE is legal exactly when the hand has two
\* cards, the bankroll is at least the bet, and double_after_split is enabled
\* or the split depth is 0.
C3_DoubleLegal ==
    AtDecision =>
        (DOUBLE \in LegalNow <=>
            /\ Len(Head(stack).hand.cards) = 2
            /\ bankroll >= Head(stack).bet
            /\ (options.double_after_split \/ Head(stack).num_split = 0))

C3_Witness ==
    /\ AtDecision
    /\ Len(Head(stack).hand.cards) = 2
    /\ bankroll >= Head(stack).bet
    /\ ~options.double_after_split
    /\ Head(stack).num_split > 0
    /\ DOUBLE \notin LegalNow

\* C4: at every decision point SPLIT is legal exactly when the hand has two
\* cards, the bankroll is at least the bet, the cards are split-eligible and
\* the split depth is below max_split; SPLIT answered at depth max_split raises.
C4_SplitLegal ==
    /\ [](AtDecision =>
            (SPLIT \in LegalNow <=>
                /\ Len(Head(stack).hand.cards) = 2
                /\ bankroll >= Head(stack).bet
                /\ can_split(Head(stack).hand)
                /\ Head(stack).num_split < options.max_split))
    /\ [][(/\ PlayerAnswers
           /\ last'.action = SPLIT
           /\ Head(stack).num_split = options.max_split)
          => (pc' = "raised" /\ error' = "AssertionError")]_vars

C4_Witness ==
    /\ pc = "raised"
    /\ last.who = "player"
    /\ last.action = SPLIT
    /\ can_split(Head(stack).hand)
    /\ bankroll >= Head(stack).bet
    /\ Head(stack).num_split > 0
    /\ Head(stack).num_split = options.max_split

\* C5: HIT and STAND are legal at every decision point, and a hand that does
\* not have exactly two cards has no other legal action.
C5_HitStandAlways ==
    AtDecision =>
        /\ {HIT, STAND} \subseteq LegalNow
        /\ (Len(Head(stack).hand.cards) # 2 => LegalNow = {HIT, STAND})

C5_Witness ==
    /\ pc = "player"
    /\ Head(stack).kind = "play"
    /\ Len(Head(stack).hand.cards) = 3
    /\ Head(stack).num_split = 0
    /\ options.late_surrender
    /\ bankroll >= Head(stack).bet
    /\ last.action = HIT
    /\ LegalNow = {HIT, STAND}

\* C6: settling one player hand against the dealer's final hand adds to the
\* bankroll 0 if the player is bust (also when the dealer is bust too),
\* otherwise twice the wager if the dealer is bust or the player's value is
\* higher, the wager if the values are equal, 0 if the player's value is lower;
\* total wagered, the hands and the shoe are unchanged.
C6_CompareSettles ==
    [][pc = "compare" =>
         LET p == player_hands[cmp_i]
             d == dealer_hand
             credit ==
                 IF value(p) > 21 THEN 0
                 ELSE IF value(d) > 21 \/ value(p) > value(d) THEN 2 * p.wager
                 ELSE IF value(p) = value(d) THEN p.wager
                 ELSE 0
         IN  /\ bankroll' = bankroll + credit
             /\ UNCHANGED <<total_bet, shoe, player_hands, dealer_hand,
                            player_hand, hands, stack>>]_vars

C6_Witness ==
    /\ compare_calls > 0
    /\ cmp_i > 1
    /\ is_bust(player_hands[cmp_i - 1])
    /\ is_bust(dealer_hand)
    /\ bankroll = pre_bet - round_charged

\* C7: when a two-card hand of the deal has value 21 the round credits the bet
\* if both have (the bankroll is back at its value before the bet), the bet
\* plus payout times the bet if only the player has, nothing if only the dealer.
C7_NaturalCredits ==
    [][(pc = "dealt" /\ (value(player_hand) = 21 \/ value(dealer_hand) = 21)) =>
         /\ (value(player_hand) = 21 /\ value(dealer_hand) = 21) =>
                (bankroll' = bankroll + bet /\ bankroll' = pre_bet)
         /\ (value(player_hand) = 21 /\ value(dealer_hand) # 21) =>
                2 * bankroll' = 2 * bankroll + 2 * bet + PayoutNum * bet
         /\ (value(player_hand) # 21 /\ value(dealer_hand) = 21) =>
                bankroll' = bankroll]_vars

C7_Witness ==
    /\ RoundOver
    /\ value(player_hand) = 21
    /\ value(DealtDealer) = 21
    /\ Len(dealer_hand.cards) = 2
    /\ bankroll = pre_bet

\* a hand of the deal is a natural
DealtNatural ==
    /\ rounds > 0
    /\ round_draws >= 4
    /\ (is_blackjack(player_hand) \/ is_blackjack(DealtDealer))

\* C8: when a hand of the deal is a natural nothing more is played in the
\* round: no get_action call, four cards drawn, no bet charged but the first.
C8_NaturalEndsRound ==
    DealtNatural =>
        /\ round_actions = 0
        /\ dealer_calls = 0
        /\ compare_calls = 0
        /\ round_draws = 4
        /\ round_charged = bet
        /\ Len(dealer_hand.cards) = 2
        /\ pc \in {"dealt", "bet", "returned"}

C8_Witness ==
    /\ RoundOver
    /\ ~is_blackjack(player_hand)
    /\ is_blackjack(DealtDealer)
    /\ round_draws = 4
    /\ bankroll = pre_bet - bet

\* the ace and the nine the example calls a natural
AceNine == <<Card("A"), Card("9")>>
KingTwo == <<Card("K"), Card("2")>>

\* C9 as stated: the player dealt a natural (ace and nine, in the example)
\* against king and two, bet 10, payout 1.5, ends the round 25 above the
\* bankroll before the bet.
C9_Original ==
    (/\ RoundOver
     /\ bet = 10
     /\ DealtDealer.cards = KingTwo
     /\ (player_hand.cards = AceNine \/ is_blackjack(player_hand)))
    => bankroll = pre_bet + 25

\* C9 amended: the player dealt a natural (an ace and a ten-valued card)
\* against king and two, bet 10, payout 1.5, is credited 25: the bankroll ends
\* 25 above the bankroll after the bet was deducted, 15 above the one before.
C9_NaturalPays ==
    (/\ RoundOver
     /\ bet = 10
     /\ DealtDealer.cards = KingTwo
     /\ is_blackjack(player_hand))
    => (bankroll = (pre_bet - bet) + 25 /\ bankroll = pre_bet + 15)

C9_Witness ==
    /\ RoundOver
    /\ bet = 10
    /\ DealtDealer.cards = KingTwo
    /\ player_hand.cards = <<Card("A"), Card("K")>>
    /\ bankroll = pre_bet + 15

\* the player's resolution gave one hand, surrendered
Surrendered == Len(player_hands) = 1 /\ is_surrender(player_hands[1])

\* C10: when the player's resolution gives one surrendered hand the bankroll
\* is credited half the bet, the dealer keeps two cards, Dealer is not asked
\* and no hand is compared in the round.
C10_SurrenderSettles ==
    Surrendered =>
        /\ pc \in {"bet", "returned"}
        /\ 2 * bankroll = 2 * (pre_bet - round_charged) + bet
        /\ round_charged = bet
        /\ Len(dealer_hand.cards) = 2
        /\ dealer_calls = 0
        /\ compare_calls = 0

C10_Witness ==
    /\ RoundOver
    /\ Surrendered
    /\ Len(player_hands[1].cards) = 2
    /\ dealer_calls = 0

\* this step is a get_action call of the player's strategy answering the legal
\* action a
PlayerChose(a) == PlayerAnswers /\ last'.action = a /\ a \in LegalNow
\* the terminal hand returned last
LastHand(hs) == hs[Len(hs)]

\* C11: DOUBLE charges one more bet, draws one card into the hand, doubles its
\* wager and ends the hand whatever its value; on an empty shoe the bet is
\* charged and the draw fails.
C11_DoubleEndsHand ==
    [][PlayerChose(DOUBLE) =>
         LET fr == Head(stack)
             h == fr.hand
         IN  /\ bankroll' = bankroll - fr.bet
             /\ total_bet' = total_bet + fr.bet
             /\ IF ShoeLen(shoe) = 0
                THEN pc' = "raised" /\ round_draws' = round_draws
                ELSE /\ round_draws' = round_draws + 1
                     /\ ShoeLen(shoe') = ShoeLen(shoe) - 1
                     /\ stack' = Tail(stack)
                     /\ hands' = Append(hands, LastHand(hands'))
                     /\ Len(LastHand(hands').cards) = Len(h.cards) + 1
                     /\ SubSeq(LastHand(hands').cards, 1, Len(h.cards)) = h.cards
                     /\ LastHand(hands').wager = 2 * h.wager
                     /\ ~LastHand(hands').surrender]_vars

C11_Witness ==
    /\ pc \in {"player", "resolved"}
    /\ last.who = "player"
    /\ last.action = DOUBLE
    /\ last.legal
    /\ hands # <<>>
    /\ Len(LastHand(hands).cards) = 3
    /\ LastHand(hands).wager = 2 * bet
    /\ value(LastHand(hands)) < 21
    /\ bankroll = pre_bet - round_charged

\* C12: HIT draws one card into the hand and leaves bankroll, total wagered
\* and wager alone; a hand then bust or at 21 is terminal, any other hand is
\* asked about again with the same bet and split depth; on an empty shoe the
\* draw fails.
C12_HitDrawsOne ==
    [][PlayerChose(HIT) =>
         LET fr == Head(stack)
             h == fr.hand
         IN  /\ bankroll' = bankroll
             /\ total_bet' = total_bet
             /\ IF ShoeLen(shoe) = 0
                THEN pc' = "raised" /\ round_draws' = round_draws
                ELSE /\ round_draws' = round_draws + 1
                     /\ ShoeLen(shoe') = ShoeLen(shoe) - 1
                     /\ \E f \in Drawable(shoe) :
                          LET h2 == [cards |-> Append(h.cards, Card(f)),
                                     wager |-> h.wager,
                                     surrender |-> h.surrender]
                          IN  IF value(h2) >= 21
                              THEN /\ stack' = Tail(stack)
                                   /\ hands' = Append(hands, h2)
                              ELSE /\ stack' = <<Frame("play", h2, fr.bet,
                                                       fr.num_split)>>
                                               \o Tail(stack)
                                   /\ hands' = hands
                                   /\ pc' = "player"]_vars

C12_Witness ==
    /\ pc \in {"player", "resolved"}
    /\ last.who = "player"
    /\ last.action = HIT
    /\ last.legal
    /\ hands # <<>>
    /\ Len(LastHand(hands).cards) >= 3
    /\ value(LastHand(hands)) = 21
    /\ LastHand(hands).wager = bet
    /\ round_charged = bet

\* C13: splitting a pair of aces yields two terminal hands, each one original
\* ace and one drawn card at the original wager, and neither is ever played:
\* no pending hand after a split starts with an ace.
C13_SplitAcesStand ==
    /\ [](\A i \in 1..Len(stack) :
            (pc = "player" /\ stack[i].num_split >= 1)
                => ~is_ace(stack[i].hand.cards[1]))
    /\ [][(/\ PlayerChose(SPLIT)
           /\ is_ace(Head(stack).hand.cards[1])
           /\ ShoeLen(shoe) >= 2)
          => LET h == Head(stack).hand
                 k == Len(hands)
             IN  /\ stack' = Tail(stack)
                 /\ round_draws' = round_draws + 2
                 /\ Len(hands') = k + 2
                 /\ SubSeq(hands', 1, k) = hands
                 /\ \A i \in 1..2 :
                      /\ Len(hands'[k + i].cards) = 2
                      /\ hands'[k + i].cards[1] = h.cards[i]
                      /\ hands'[k + i].wager = Head(stack).bet
                      /\ ~hands'[k + i].surrender]_vars

\* aces were split, a new hand drew another ace and could be split again
C13_Witness ==
    /\ pc = "resolved"
    /\ last.who = "player"
    /\ last.action = SPLIT
    /\ last.legal
    /\ round_actions = 1
    /\ Len(hands) = 2
    /\ \A i \in 1..2 : Len(hands[i].cards) = 2 /\ is_ace(hands[i].cards[1])
    /\ \E i \in 1..2 : SPLIT \in LegalActions(hands[i], bet, 1, bankroll, options)

\* the hand SPLIT makes of the original card c and the drawn card of face f
SplitHand(c, f, b) ==
    [cards |-> <<c, Card(f)>>, wager |-> b, surrender |-> FALSE]

\* C14: SPLIT charges one more bet and replaces the hand by two new hands, the
\* i-th starting with the i-th original card, at the bet as wager and not
\* surrendered; for a pair without aces each is played at split depth + 1, the
\* second after the first; the original hand does not join the terminal hands.
C14_SplitReplaces ==
    /\ [][PlayerChose(SPLIT) =>
            LET fr == Head(stack)
                h == fr.hand
                b == fr.bet
            IN  /\ bankroll' = bankroll - b
                /\ total_bet' = total_bet + b
                /\ IF ShoeLen(shoe) < (IF is_ace(h.cards[1]) THEN 2 ELSE 1)
                   THEN pc' = "raised" /\ hands' = hands
                   ELSE \E f \in Drawable(shoe) :
                          IF is_ace(h.cards[1])
                          THEN /\ stack' = Tail(stack)
                               /\ \E g \in Drawable(shoe) :
                                    hands' = hands \o <<SplitHand(h.cards[1], f, b),
                                                        SplitHand(h.cards[2], g, b)>>
                          ELSE /\ hands' = hands
                               /\ Len(stack') = Len(stack) + 1
                               /\ SubSeq(stack', 3, Len(stack')) = Tail(stack)
                               /\ stack'[1] = Frame("play", SplitHand(h.cards[1], f, b),
                                                    b, fr.num_split + 1)
                               /\ stack'[2].kind = "split"
                               /\ stack'[2].hand =
                                    [cards |-> <<h.cards[2]>>, wager |-> b,
                                     surrender |-> FALSE]
                               /\ stack'[2].bet = b]_vars
    /\ [][(/\ pc = "player"
           /\ Head(stack).kind = "split"
           /\ pc' # "raised")
          => LET fr == Head(stack)
             IN  /\ hands' = hands
                 /\ bankroll' = bankroll
                 /\ Tail(stack') = Tail(stack)
                 /\ \E f \in Drawable(shoe) :
                      Head(stack') = Frame("play",
                                           SplitHand(fr.hand.cards[1], f, fr.bet),
                                           fr.bet, fr.num_split + 1)]_vars

\* the second hand of a split has drawn and waits for its first decision
C14_Witness ==
    /\ pc = "player"
    /\ Len(stack) = 1
    /\ Head(stack).kind = "play"
    /\ Head(stack).num_split = 1
    /\ Len(Head(stack).hand.cards) = 2
    /\ Head(stack).hand.wager = bet
    /\ Len(hands) >= 1
    /\ round_charged = 2 * bet
    /\ bankroll = pre_bet - 2 * bet

\* the bet just asked for ends the session: it is falsy, exceeds the bankroll,
\* or the shoe is at or below the cutoff
SessionStops ==
    \/ asked' = 0
    \/ asked' > bankroll
    \/ ShoeLen(shoe) * 100 <= options.shoe_min_percent * num_cards(options.num_decks)

\* C15: play asks for a bet before every round; on a falsy bet, a bet above
\* the bankroll or a shoe at or below shoe_min_percent it returns with nothing
\* charged and no card drawn, otherwise it charges the bet and starts a round.
C15_SessionLoop ==
    /\ [][pc = "bet" =>
            /\ shoe' = shoe
            /\ IF SessionStops
               THEN /\ pc' = "returned"
                    /\ bankroll' = bankroll
                    /\ total_bet' = total_bet
                    /\ rounds' = rounds
                    /\ result'[1] = bankroll
               ELSE /\ pc' = "deal"
                    /\ bet' = asked'
                    /\ bankroll' = bankroll - asked'
                    /\ total_bet' = total_bet + asked'
                    /\ rounds' = rounds + 1
                    /\ round_draws' = 0]_vars
    /\ [][rounds' # rounds \/ (pc' = "deal" /\ pc # "deal") => pc = "bet"]_vars

\* a bet, one round won by the bet, then a falsy bet with money and cards left
C15_Witness ==
    /\ pc = "returned"
    /\ rounds = 1
    /\ asked = 0
    /\ error = "none"
    /\ total_bet = 10
    /\ bankroll = initial + 10
    /\ result[1] = bankroll
    /\ ShoeLen(shoe) * 100 > options.shoe_min_percent * num_cards(options.num_decks)

\* the session ended on a shoe exactly at the cutoff
C15_AtCutoffWitness ==
    /\ pc = "returned"
    /\ asked = 10
    /\ bankroll >= 10
    /\ ShoeLen(shoe) > 0
    /\ ShoeLen(shoe) * 100 = options.shoe_min_percent * num_cards(options.num_decks)

\* this step attempts a draw that finds the shoe empty: a card of the deal, of
\* a legal HIT, DOUBLE or SPLIT of the player or the dealer, or of the second
\* hand of a split
DrawOnEmpty ==
    \/ pc = "deal" /\ ShoeLen(shoe) = 0
    \/ pc = "player" /\ Head(stack).kind = "split" /\ ShoeLen(shoe) = 0
    \/ /\ pc \in {"player", "dealer"}
       /\ Head(stack).kind = "play"
       /\ round_actions' = round_actions + 1 \/ dealer_calls' = dealer_calls + 1
       /\ last'.legal
       /\ ~(pc = "dealer" /\ value(Head(stack).hand) >= 21)
       /\ \/ last'.action \in {HIT, DOUBLE, SPLIT} /\ ShoeLen(shoe) = 0
          \/ /\ last'.action = SPLIT
             /\ is_ace(Head(stack).hand.cards[1])
             /\ ShoeLen(shoe) = 1

\* C16: when a draw of a round finds the shoe empty, play does not raise: it
\* returns the bankroll before the round less every bet charged in the round,
\* with no credit, and the bets stay in the total wagered.
C16_ExhaustionReturns ==
    [][DrawOnEmpty =>
         /\ pc' = "returned"
         /\ error' = "none"
         /\ bankroll' = pre_bet - round_charged'
         /\ result'[1] = bankroll'
         /\ total_bet' - total_bet = round_charged' - round_charged]_vars

\* what the code does instead: the failed draw leaves play as an
\* AssertionError, with the round's bets charged and nothing credited
C16_ExhaustionRaises ==
    [][DrawOnEmpty =>
         /\ pc' = "raised"
         /\ error' = "AssertionError"
         /\ result' = result
         /\ bankroll' = pre_bet - round_charged'
         /\ total_bet' - total_bet = round_charged' - round_charged]_vars

\* a DOUBLE of the player found the shoe empty
C16_Witness ==
    /\ pc = "raised"
    /\ last.legal
    /\ last.who = "player"
    /\ last.action = DOUBLE
    /\ ShoeLen(shoe) = 0
    /\ round_charged = 2 * bet

\* C17: play returns the final bankroll and an ev (numerator over denominator)
\* with ev * total wagered = final - initial bankroll when something was
\* wagered, and ev 0 with the bankroll unchanged when nothing was; the total
\* wagered grows by each accepted bet and each DOUBLE and SPLIT charge only.
C17_ReturnsEv ==
    /\ [](pc = "returned" =>
            /\ result[1] = bankroll
            /\ result[3] # 0
            /\ IF total_bet # 0
               THEN result[2] * total_bet = (bankroll - initial) * result[3]
               ELSE result[2] = 0 /\ bankroll = initial)
    /\ [][total_bet' - total_bet =
            IF pc = "bet" /\ pc' = "deal" THEN asked'
            ELSE IF PlayerChose(DOUBLE) \/ PlayerChose(SPLIT) THEN Head(stack).bet
            ELSE 0]_vars

\* one round with a doubled bet that won, then a falsy bet
C17_Witness ==
    /\ pc = "returned"
    /\ rounds = 1
    /\ total_bet = 20
    /\ round_charged = 20
    /\ bankroll = initial + 20
    /\ result = <<initial + 20, 20, 20>>

\* num_decks decks of 52 cards
FullShoe == options.num_decks * CardsPerDeck

\* C18: a Shoe of n decks starts with 52*n cards and 100 percent full; each
\* successful draw removes exactly one card, the one returned; cards drawn
\* plus cards remaining is always 52*n; the shoe never grows.
C18_ShoeConserved ==
    /\ [](/\ round_draws = Len(player_hand.cards)
          /\ round_draws + Len(shoe) = FullShoe
          /\ round_draws = 0 =>
               /\ Len(shoe) = FullShoe
               /\ percent_full(shoe, options.num_decks).num
                    = 100 * percent_full(shoe, options.num_decks).den)
    /\ [][/\ Len(shoe') <= Len(shoe)
          /\ round_draws' # round_draws =>
               /\ round_draws' = round_draws + 1
               /\ Len(shoe') = Len(shoe) - 1
               /\ shoe = Append(shoe', LastHand(player_hand'.cards))]_vars

\* half of a one-deck shoe has been drawn
C18_Witness ==
    /\ pc = "shoe"
    /\ options.num_decks = 1
    /\ round_draws = 26
    /\ Len(shoe) = 26
    /\ Len(player_hand.cards) = 26

\* C19: after 52*n successful draws the shoe is empty and 0 percent full, and
\* every further draw raises EmptyShoeError, returns no card and leaves the
\* shoe empty.
C19_EmptyShoeRaises ==
    /\ [](round_draws = FullShoe =>
            /\ shoe = <<>>
            /\ percent_full(shoe, options.num_decks).num = 0)
    /\ [][(round_draws = FullShoe /\ error = "none") =>
            /\ error' = "EmptyShoeError"
            /\ shoe' = <<>>
            /\ player_hand' = player_hand
            /\ round_draws' = round_draws]_vars

\* a second draw from the emptied shoe has raised
C19_Witness ==
    /\ pc = "shoe"
    /\ round_draws = FullShoe
    /\ Len(player_hand.cards) = FullShoe
    /\ shoe = <<>>
    /\ error = "EmptyShoeError"

\* within a session the shoe is never refilled
SessionKeepsShoe == [][ShoeLen(shoe') <= ShoeLen(shoe)]_vars

\* the number of aces among the cards
AcesIn(cards) == Cardinality({i \in 1..Len(cards) : cards[i].value = 11})

\* the total of the cards with every ace counted as 1
RECURSIVE HardTotal(_)
HardTotal(cards) ==
    IF cards = <<>> THEN 0
    ELSE (IF Head(cards).value = 11 THEN 1 ELSE Head(cards).value)
         + HardTotal(Tail(cards))

\* the numbers k of aces counted as 11 that keep the total at 21 or less
ElevenCounts(cards) ==
    {k \in 0..AcesIn(cards) : HardTotal(cards) + 10 * k <= 21}

\* the largest k of a non-empty set of numbers
Largest(S) == CHOOSE k \in S : \A j \in S : j <= k

\* the largest total not above 21 with each ace as 1 or 11, else the total
\* with every ace as 1
BestTotal(cards) ==
    IF ElevenCounts(cards) # {}
    THEN HardTotal(cards) + 10 * Largest(ElevenCounts(cards))
    ELSE HardTotal(cards)

\* that total counts at least one ace as 11
BestIsSoft(cards) ==
    ElevenCounts(cards) # {} /\ Largest(ElevenCounts(cards)) >= 1

\* C20: the value of a hand is the largest total not above 21 obtainable by
\* counting each ace as 1 or 11, or the total with every ace as 1 if there is
\* none; the hand is soft exactly when that total counts an ace as 11.
C20_HandValue ==
    /\ value(player_hand) = BestTotal(player_hand.cards)
    /\ is_soft(player_hand) <=> BestIsSoft(player_hand.cards)

\* the hand [A, A, 9]: two aces, one reduced, worth a soft 21
C20_Witness ==
    /\ pc = "hand"
    /\ player_hand.cards = <<Card("A"), Card("A"), Card("9")>>
    /\ value(player_hand) = 21
    /\ is_soft(player_hand)
    /\ value(Hand(SubSeq(player_hand.cards, 1, 2), 0)) = 12
    /\ is_soft(Hand(SubSeq(player_hand.cards, 1, 2), 0))

\* this step appends one card to the hand
Appends == Len(player_hand'.cards) = Len(player_hand.cards) + 1
\* the card appended by this step
Appended == LastHand(player_hand'.cards)

\* C21 as stated: appending a further card to a hand of value 21 never changes
\* its value.
C21_Original ==
    [][(Appends /\ value(player_hand) = 21) => value(player_hand') = 21]_vars

\* C21: appending a ten-valued card to a soft 21 leaves the value at 21;
\* appending any other card to a 21, or any card to a hard 21, changes it.
C21_TenOnSoft21 ==
    [][(Appends /\ value(player_hand) = 21) =>
         (value(player_hand') = 21
            <=> (is_soft(player_hand) /\ Appended.value = 10))]_vars

\* the hand [A, A, 9, K]: a ten on the soft 21 of [A, A, 9]
C21_Witness ==
    /\ pc = "hand"
    /\ Len(player_hand.cards) = 4
    /\ value(Hand(SubSeq(player_hand.cards, 1, 3), 0)) = 21
    /\ is_soft(Hand(SubSeq(player_hand.cards, 1, 3), 0))
    /\ player_hand.cards[4].value = 10
    /\ value(player_hand) = 21

\* C22: a hand of shoe cards is split-eligible exactly when it has two cards
\* of the same rank label, whatever their suits; two different ten-valued
\* ranks are not, nor is any hand of one card or of three and more.
C22_CanSplit ==
    /\ can_split(player_hand)
         <=> \E i \in 1..Len(FACES), j, k \in 1..Len(SUITS) :
               player_hand.cards = <<ShoeCard(FACES[i], SUITS[j]),
                                     ShoeCard(FACES[i], SUITS[k])>>
    /\ Len(player_hand.cards) # 2 => ~can_split(player_hand)
    /\ \A f, g \in {"T", "J", "Q", "K"}, j, k \in 1..Len(SUITS) :
         (f # g /\ player_hand.cards = <<ShoeCard(f, SUITS[j]), ShoeCard(g, SUITS[k])>>)
            => ~can_split(player_hand)

\* two kings of different suits
C22_Witness ==
    /\ pc = "hand"
    /\ player_hand.cards = <<ShoeCard("K", SUITS[1]), ShoeCard("K", SUITS[2])>>
    /\ player_hand.cards[1] # player_hand.cards[2]
    /\ can_split(player_hand)

\* a king and a queen
C22_TenValuedWitness ==
    /\ player_hand.cards = <<ShoeCard("K", SUITS[1]), ShoeCard("Q", SUITS[1])>>
    /\ ~can_split(player_hand)

\* C23: on every hand that is neither bust nor 21 the dealer hits below 17,
\* stands above 17, hits a soft 17 exactly when hit_soft_seventeen is set and
\* stands on a hard 17; the answer is always HIT or STAND, and both Dealer
\* implementations give it.
C23_DealerPolicy ==
    value(player_hand) < 21 =>
        \A hss \in BOOLEAN :
            LET a == DealerGetAction(player_hand, hss)
                v == value(player_hand)
            IN  /\ a \in {HIT, STAND}
                /\ v < 17 => a = HIT
                /\ v > 17 => a = STAND
                /\ (v = 17 /\ is_soft(player_hand)) => (a = HIT <=> hss)
                /\ (v = 17 /\ ~is_soft(player_hand)) => a = STAND
                /\ DealerGetActionAlt(player_hand, hss) = a

\* the soft 17 of [A, 6]: hit or stood on by the setting
C23_Witness ==
    /\ pc = "hand"
    /\ player_hand.cards = <<Card("A"), Card("6")>>
    /\ DealerGetAction(player_hand, TRUE) = HIT
    /\ DealerGetAction(player_hand, FALSE) = STAND

\* C24: the dealer answers HIT or STAND only, so the dealer's resolution moves
\* no money and ends with exactly one terminal hand, not surrendered and at
\* wager 0, whatever else the legal-action set of the dealer's hand offers.
C24_DealerOneHand ==
    [][pc = "dealer" =>
         /\ bankroll' = bankroll
         /\ total_bet' = total_bet
         /\ last'.who = "dealer"
         /\ last'.legal
         /\ last'.action \in {HIT, STAND}
         /\ \/ pc' = "dealer" /\ hands' = <<>> /\ Len(stack') = 1
            \/ /\ pc' = "compare"
               /\ Len(hands') = 1
               /\ ~is_surrender(hands'[1])
               /\ hands'[1].wager = 0
               /\ dealer_hand' = hands'[1]
               /\ stack' = <<>>
            \/ pc' = "raised" /\ last'.action = HIT /\ ShoeLen(shoe) = 0]_vars

\* the dealer stood on a pair that SURRENDER, DOUBLE and SPLIT were legal for
C24_Witness ==
    /\ pc = "compare"
    /\ last.who = "dealer"
    /\ dealer_calls = 1
    /\ hands = <<dealer_hand>>
    /\ can_split(dealer_hand)
    /\ {SURRENDER, DOUBLE, SPLIT}
         \subseteq LegalActions(dealer_hand, 0, 0, bankroll, options)
    /\ bankroll = pre_bet - round_charged

\* the legal-action sets get_action can be given
ActionSets == {{HIT, STAND} \cup extra : extra \in SUBSET {SURRENDER, DOUBLE, SPLIT}}

\* C25: Basic.get_action answers a member of the action set it was given and
\* raises no assertion, on every hand of two and more cards below 21 with
\* every upcard and every action set, and on every decision of a session it
\* plays under any shoe order and rule set.
C25_BasicLegal ==
    /\ []((pc = "hand" /\ Len(player_hand.cards) >= 2 /\ value(player_hand) < 21)
            => \A up \in Upcards, actions \in ActionSets :
                 BasicGetAction(player_hand, actions, up) \in actions)
    /\ [][(pc = "player" /\ Head(stack).kind = "play") =>
            /\ last'.action = BasicGetAction(Head(stack).hand, LegalNow, upcard)
            /\ last'.action \in LegalNow
            /\ last'.legal
            /\ pc' = "raised" => DrawOnEmpty]_vars

\* Basic has played both hands of a split
C25_Witness ==
    /\ pc = "resolved"
    /\ last.who = "player"
    /\ last.legal
    /\ Len(hands) = 2
    /\ round_actions >= 3
    /\ round_charged = 2 * bet

\* a table was called on these arguments
Asked(table) == pc = "answered" /\ last.who = table

\* C26: the pair table, for every card value 2..11 of the pair, upcard 2..11
\* and availability of SURRENDER and DOUBLE.
C26_PairTable ==
    Asked("split") =>
        LET p == last.player
            d == last.dealer
        IN  last.action =
              CASE p = 11 -> SPLIT
                [] p = 10 -> STAND
                [] p = 9 -> IF d \in (2..9) \ {7} THEN SPLIT ELSE STAND
                [] p = 8 -> IF d = 11 /\ last.can_surrender THEN SURRENDER ELSE SPLIT
                [] p = 7 -> IF d <= 7 THEN SPLIT ELSE HIT
                [] p = 6 -> IF d <= 6 THEN SPLIT ELSE HIT
                [] p = 5 -> IF last.can_double /\ d <= 9 THEN DOUBLE ELSE HIT
                [] p = 4 -> IF d \in 5..6 THEN SPLIT ELSE HIT
                [] p \in 2..3 -> IF d <= 7 THEN SPLIT ELSE HIT

\* a pair of nines against a 7 stands, against an 8 splits
C26_Witness ==
    /\ Asked("split")
    /\ last.player = 9
    /\ last.dealer = 7
    /\ last.action = STAND
    /\ _handle_split(9, 8, last.can_surrender, last.can_double) = SPLIT

\* C27: the soft table, for every value 2..9 and 11 of the card beside the
\* ace, upcard 2..11 and availability of DOUBLE.
C27_SoftTable ==
    (Asked("soft") /\ last.player # 10) =>
        LET p == last.player
            d == last.dealer
            cd == last.can_double
        IN  last.action =
              CASE p = 11 -> IF cd /\ d = 6 THEN DOUBLE ELSE HIT
                [] p = 9 -> STAND
                [] p = 8 -> IF cd /\ d = 6 THEN DOUBLE ELSE STAND
                [] p = 7 -> IF d \in 7..8 THEN STAND
                            ELSE IF d >= 9 THEN HIT
                            ELSE IF cd THEN DOUBLE ELSE STAND
                [] p = 6 -> IF cd /\ d \in 3..6 THEN DOUBLE ELSE HIT
                [] p \in 4..5 -> IF cd /\ d \in 4..6 THEN DOUBLE ELSE HIT
                [] p \in 2..3 -> IF cd /\ d \in 5..6 THEN DOUBLE ELSE HIT

\* ace and 7 against a 9 hits, against an 8 stands
C27_Witness ==
    /\ Asked("soft")
    /\ last.player = 7
    /\ last.dealer = 9
    /\ last.action = HIT
    /\ _handle_soft_total(7, 8, last.can_double) = STAND

\* C28: the hard table, for every total 4..20, upcard 2..11 and availability
\* of SURRENDER and DOUBLE.
C28_HardTable ==
    (Asked("hard") /\ last.player \in 4..20) =>
        LET p == last.player
            d == last.dealer
            cs == last.can_surrender
            cd == last.can_double
        IN  last.action =
              CASE p >= 18 -> STAND
                [] p = 17 -> IF cs /\ d = 11 THEN SURRENDER ELSE STAND
                [] p = 16 -> IF d <= 6 THEN STAND
                             ELSE IF d \in 7..8 THEN HIT
                             ELSE IF cs THEN SURRENDER ELSE HIT
                [] p = 15 -> IF d <= 6 THEN STAND
                             ELSE IF d \in 7..9 THEN HIT
                             ELSE IF cs THEN SURRENDER ELSE HIT
                [] p \in 13..14 -> IF d <= 6 THEN STAND ELSE HIT
                [] p = 12 -> IF d \in 4..6 THEN STAND ELSE HIT
                [] p = 11 -> IF cd THEN DOUBLE ELSE HIT
                [] p = 10 -> IF cd /\ d <= 9 THEN DOUBLE ELSE HIT
                [] p = 9 -> IF cd /\ d \in 3..6 THEN DOUBLE ELSE HIT
                [] p \in 4..8 -> HIT

\* 16 against a 9 surrenders if it can, 15 against a 9 hits
C28_Witness ==
    /\ Asked("hard")
    /\ last.player = 16
    /\ last.dealer = 9
    /\ last.can_surrender
    /\ last.action = SURRENDER
    /\ _handle_hard_total(15, 9, TRUE, last.can_double) = HIT

\* the table Basic would use if it went by the shape of the hand: the pair
\* table for two cards of one rank, the soft table for two cards with an ace
TableByShape(hand, actions, up) ==
    IF can_split(hand)
    THEN _handle_split(hand.cards[1].value, up,
                       SURRENDER \in actions, DOUBLE \in actions)
    ELSE IF Len(hand.cards) = 2 /\ has_ace(hand)
    THEN _handle_soft_total(SumValues(hand.cards) - 11, up, DOUBLE \in actions)
    ELSE _handle_hard_total(value(hand), up,
                            SURRENDER \in actions, DOUBLE \in actions)

\* the table Basic uses going by the action list: the pair table when SPLIT
\* is offered
TableByOffer(hand, actions, up) ==
    IF SPLIT \in actions
    THEN _handle_split(hand.cards[1].value, up,
                       SURRENDER \in actions, DOUBLE \in actions)
    ELSE IF Len(hand.cards) = 2 /\ has_ace(hand)
    THEN _handle_soft_total(SumValues(hand.cards) - 11, up, DOUBLE \in actions)
    ELSE _handle_hard_total(value(hand), up,
                            SURRENDER \in actions, DOUBLE \in actions)

\* the action sets the engine can offer for a hand: SPLIT for pairs only
OfferedSets(hand) == {actions \in ActionSets : SPLIT \in actions => can_split(hand)}

TwoTwos == <<Card("2"), Card("2")>>

\* C29 as stated: every pair of identical rank is answered from the pair
\* table, so a pair of 2s gets SPLIT against every upcard up to 7.
C29_Original ==
    [][(pc = "player" /\ Head(stack).kind = "play") =>
         /\ last'.action = TableByShape(Head(stack).hand, LegalNow, upcard)
         /\ (Head(stack).hand.cards = TwoTwos /\ upcard <= 7)
              => last'.action = SPLIT]_vars

\* C29: Basic answers from the pair table whenever SPLIT is among the legal
\* actions, otherwise from the soft table for two cards with an ace, otherwise
\* from the hard table; a pair of 2s gets HIT against 8 and more, and against
\* 7 and less SPLIT if SPLIT is legal and HIT if not.
C29_TableByOffer ==
    /\ []((pc = "hand" /\ Len(player_hand.cards) >= 2 /\ value(player_hand) < 21)
            => \A up \in Upcards, actions \in OfferedSets(player_hand) :
                 LET a == BasicGetAction(player_hand, actions, up)
                 IN  /\ a = TableByOffer(player_hand, actions, up)
                     /\ player_hand.cards = TwoTwos =>
                          a = IF up <= 7 /\ SPLIT \in actions THEN SPLIT ELSE HIT)
    /\ [][(pc = "player" /\ Head(stack).kind = "play") =>
            /\ last'.action = TableByOffer(Head(stack).hand, LegalNow, upcard)
            /\ Head(stack).hand.cards = TwoTwos =>
                 last'.action = IF upcard <= 7 /\ SPLIT \in LegalNow
                                THEN SPLIT ELSE HIT]_vars

\* Basic hit a pair of 2s against a low upcard because it could not pay a split
C29_Witness ==
    /\ pc = "player"
    /\ round_actions = 1
    /\ last.who = "player"
    /\ last.action = HIT
    /\ player_hand.cards = TwoTwos
    /\ upcard <= 7
    /\ bankroll < bet
    /\ Len(Head(stack).hand.cards) = 3

\* the player's hands of the round: the terminal hands returned so far and the
\* hands still to be played (one for each pending call and waiting new hand)
PlayerLeaves ==
    IF player_hands # <<>> THEN Len(player_hands)
    ELSE IF pc \in {"player", "resolved"} \/ (pc = "raised" /\ stack # <<>>)
    THEN Len(hands) + Len(stack)
    ELSE 1
\* the SPLIT actions of the round: every SPLIT makes two hands of one
RoundSplits == PlayerLeaves - 1

\* C30 as stated: the SPLIT actions of a round never exceed max_split, and a
\* round with max_split = 2 never ends with more than 4 player hands.
C30_Original ==
    /\ RoundSplits <= options.max_split
    /\ options.max_split = 2 => Len(player_hands) <= 4

\* C30: max_split bounds the split depth, not the number of SPLIT actions:
\* SPLIT is legal only on a hand whose split depth is below max_split, no hand
\* is ever played at a depth above max_split, every SPLIT makes two hands of
\* one, so a round holds at most 2^max_split player hands (4 with max_split = 2)
\* and at most 2^max_split - 1 SPLIT actions (3 with max_split = 2).
C30_SplitDepth ==
    /\ [](/\ pc = "player" =>
               \A i \in 1..Len(stack) :
                  /\ stack[i].kind = "play" => stack[i].num_split <= options.max_split
                  /\ stack[i].kind = "split" => stack[i].num_split < options.max_split
          /\ PlayerLeaves <= 2 ^ options.max_split
          /\ RoundSplits <= 2 ^ options.max_split - 1
          /\ Len(player_hands) <= 2 ^ options.max_split
          /\ options.max_split = 2 => Len(player_hands) <= 4)
    /\ [][(pc = "player" /\ Head(stack).kind = "play") =>
            /\ SPLIT \in LegalNow => Head(stack).num_split < options.max_split
            /\ PlayerChose(SPLIT) /\ pc' # "raised"
                 => Len(hands') + Len(stack') = Len(hands) + Len(stack) + 1
            /\ (PlayerAnswers /\ last'.action # SPLIT)
                 => Len(hands') + Len(stack') = Len(hands) + Len(stack)]_vars

\* a round with max_split = 2 in which the player split three times: the first
\* pair and both hands made of it, leaving four hands for the dealer to meet
C30_Witness ==
    /\ options.max_split = 2
    /\ pc = "compare"
    /\ Len(player_hands) = 4
    /\ RoundSplits = 3
    /\ round_charged = 4 * bet
    /\ round_draws = 10

\* the split depth at which the hand of a frame is, or will be, played
FrameDepth(fr) == IF fr.kind = "split" THEN fr.num_split + 1 ELSE fr.num_split
\* hs begins with the hands gs
StartsWith(hs, gs) == Len(gs) <= Len(hs) /\ SubSeq(hs, 1, Len(gs)) = gs

\* C31 as stated: both new hands of a split hold their drawn card before a
\* decision is asked for either of them, so no decision is ever pending while
\* a new hand waits with its single original card.
C31_Original ==
    (pc = "player" /\ Head(stack).kind = "play")
      => \A i \in 1..Len(stack) :
            stack[i].kind = "play" /\ Len(stack[i].hand.cards) >= 2

\* C31: on SPLIT of a pair without aces only the first new hand draws; the
\* second waits with its one original card below every call of the first
\* branch and draws, in a step of its own that asks nothing, once the first
\* branch has returned all its terminal hands; returned hands are only ever
\* appended, so the first branch's terminal hands precede the second's.
C31_SecondDrawsLater ==
    /\ [](pc = "player" =>
            /\ \A i \in 1..Len(stack) :
                  stack[i].kind = "split" => Len(stack[i].hand.cards) = 1
            /\ \A i, j \in 1..Len(stack) :
                  i < j => /\ stack[j].kind = "split"
                           /\ FrameDepth(stack[i]) >= FrameDepth(stack[j]))
    /\ [][/\ (PlayerChose(SPLIT) /\ ~has_ace(Head(stack).hand) /\ pc' # "raised")
             => /\ round_draws' = round_draws + 1
                /\ Len(stack') = Len(stack) + 1
                /\ stack'[1].kind = "play"
                /\ \E f \in Drawable(shoe) :
                      /\ stack'[1].hand.cards
                           = <<Head(stack).hand.cards[1], Card(f)>>
                      /\ shoe' = Pop(shoe, f)
                /\ stack'[2].kind = "split"
                /\ stack'[2].hand.cards = <<Head(stack).hand.cards[2]>>
                /\ hands' = hands
          /\ (pc = "player" /\ Head(stack).kind = "split" /\ pc' # "raised")
             => /\ round_actions' = round_actions
                /\ round_draws' = round_draws + 1
                /\ Len(hands) >= 1
                /\ hands' = hands
                /\ Len(stack') = Len(stack)
                /\ stack'[1].kind = "play"
                /\ \E f \in Drawable(shoe) :
                      stack'[1].hand.cards = <<Head(stack).hand.cards[1], Card(f)>>
          /\ (pc = "player" /\ pc' \in {"player", "resolved"})
             => StartsWith(hands', hands)
          /\ (pc = "resolved" /\ pc' # "resolved") => player_hands' = hands]_vars

\* the first new hand of a split has been hit and waits for its next decision
\* while the second new hand still holds its one original card
C31_Witness ==
    /\ pc = "player"
    /\ Len(stack) = 2
    /\ stack[1].kind = "play"
    /\ Len(stack[1].hand.cards) = 3
    /\ stack[2].kind = "split"
    /\ Len(stack[2].hand.cards) = 1
    /\ round_draws = 6

\* the round in progress has dealt its four cards
RoundDealt == pc \in {"dealt", "player", "resolved", "dealer", "compare"}
\* this step is a get_action call, on the player's strategy or on Dealer
AnyAnswers == PlayerAnswers \/ dealer_calls' = dealer_calls + 1

\* C32: the four cards of the deal go to player, dealer, player, dealer; the
\* upcard is the value (2..11) of the dealer's first card; only the second
\* draw of a deal sets it, so the hole card, hits, doubles and splits leave it
\* alone, and every get_action call of the round is made with that upcard.
C32_Upcard ==
    /\ [](/\ pc = "deal" => /\ round_draws \in 0..3
                            /\ Len(player_hand.cards) = (round_draws + 1) \div 2
                            /\ Len(dealer_hand.cards) = round_draws \div 2
                            /\ round_draws >= 2
                                 => upcard = dealer_hand.cards[1].value
          /\ RoundDealt => /\ round_draws >= 4
                           /\ Len(player_hand.cards) = 2
                           /\ Len(dealer_hand.cards) >= 2
                           /\ upcard = dealer_hand.cards[1].value
                           /\ upcard \in 2..11)
    /\ [][/\ upcard' # upcard
             => /\ pc = "deal" /\ round_draws = 1
                /\ upcard' = dealer_hand'.cards[1].value
                /\ Len(dealer_hand'.cards) = 1
          /\ (RoundDealt /\ pc' # "deal") => upcard' = upcard
          /\ AnyAnswers
             => /\ upcard = dealer_hand.cards[1].value
                /\ upcard' = upcard
                /\ dealer_hand'.cards[1] = dealer_hand.cards[1]]_vars

\* after a split the dealer has hit and is asked again: the upcard is still
\* the six dealt first, neither the hole card nor the card just drawn
C32_Witness ==
    /\ pc = "dealer"
    /\ dealer_calls = 1
    /\ Len(player_hands) = 2
    /\ Len(dealer_hand.cards) = 3
    /\ upcard = 6
    /\ dealer_hand.cards[1].value = 6
    /\ dealer_hand.cards[2].value # 6
    /\ dealer_hand.cards[3].value # 6

\* C33 as stated: whatever the user types or presses, Manual, Training and
\* ManualTextual answer get_action with a member of the legal-action set only.
C33_InteractiveLegal ==
    [][(PlayerAnswers /\ last'.action \in Action) => last'.action \in LegalNow]_vars

\* C34 as stated: every hand passed to get_action, of the player at any split
\* depth and of the dealer, is neither bust nor of value 21, so the assertion
\* at the head of Manual.get_action (and of Training, which calls it) never
\* fails.
C34_PreconditionHolds ==
    /\ [](AtDecision => ~(is_bust(Head(stack).hand) \/ is_blackjack(Head(stack).hand)))
    /\ [][(PlayerAnswers /\ strategy \in {"Manual", "Training"})
            => last'.action # AssertionError]_vars

\* the cards a legal answer a needs from the shoe at once
DrawsOf(a, hand) ==
    IF a = SPLIT THEN (IF has_ace(hand) THEN 2 ELSE 1)
    ELSE IF a \in {HIT, DOUBLE} THEN 1 ELSE 0

\* C35: with a non-negative bankroll, positive bets and legal actions the
\* bankroll is never negative; the bet of a round, of a DOUBLE and of a SPLIT
\* is charged only when the bankroll covers it, on every split branch, so
\* the assertion of _make_bet never fails: a legal answer raises only when
\* the shoe lacks the cards it draws.
C35_BankrollNonNegative ==
    /\ [](bankroll >= 0 /\ initial >= 0)
    /\ [][/\ (pc = "bet" /\ pc' = "deal")
             => /\ asked' > 0
                /\ bankroll >= asked'
                /\ bankroll' = bankroll - asked'
          /\ \A a \in {DOUBLE, SPLIT} :
                PlayerChose(a)
                => /\ bankroll >= Head(stack).bet
                   /\ bankroll' = bankroll - Head(stack).bet
                   /\ bankroll' >= 0
          /\ \A a \in Action :
                (PlayerChose(a) /\ pc' = "raised")
                => ShoeLen(shoe) < DrawsOf(a, Head(stack).hand)]_vars

\* a bankroll of 40 spent to the last unit: the bet, a split, and a double on
\* each of the two hands of the split
C35_Witness ==
    /\ pc = "resolved"
    /\ initial = 40
    /\ bankroll = 0
    /\ round_charged = 40
    /\ Len(hands) = 2
    /\ hands[1].wager = 2 * bet
    /\ hands[2].wager = 2 * bet

\* the sum of the wagers of the hands hs
RECURSIVE SumWagers(_)
SumWagers(hs) == IF hs = <<>> THEN 0 ELSE Head(hs).wager + SumWagers(Tail(hs))
\* the hands still to be played or waiting to draw
PendingHands == [i \in 1..Len(stack) |-> stack[i].hand]

\* C36: when the player's hands are resolved and when settlement starts, the
\* wagers of the terminal hands add up to what the round deducted from the
\* bankroll and added to the total wagered: the bet and one bet for each DOUBLE
\* and SPLIT; a terminal hand's wager is twice the bet if it was doubled and
\* the bet if not.
C36_WagersMatchCharges ==
    /\ [](/\ pc = "player"
             => /\ SumWagers(hands) + SumWagers(PendingHands) = round_charged
                /\ \A i \in 1..Len(stack) : stack[i].hand.wager = bet
          /\ pc = "resolved"
             => /\ SumWagers(hands) = round_charged
                /\ bankroll = pre_bet - round_charged
          /\ (pc = "compare" /\ cmp_i = 1)
             => SumWagers(player_hands) = round_charged
          /\ pc \in {"player", "resolved"}
             => \A i \in 1..Len(hands) : hands[i].wager \in {bet, 2 * bet}
          /\ pc \in {"dealer", "compare"}
             => \A i \in 1..Len(player_hands) :
                   player_hands[i].wager \in {bet, 2 * bet})
    /\ [][/\ \A a \in Action :
                (PlayerChose(a) /\ pc' # "raised")
                => /\ round_charged' = round_charged
                        + (IF a \in {DOUBLE, SPLIT} THEN bet ELSE 0)
                   /\ total_bet' - total_bet = round_charged' - round_charged
                   /\ bankroll - bankroll' = round_charged' - round_charged
                   /\ \A i \in (Len(hands) + 1)..Len(hands') :
                         hands'[i].wager = IF a = DOUBLE THEN 2 * bet ELSE bet
          /\ (pc \in {"player", "resolved", "dealer", "compare"}
              /\ ~PlayerAnswers /\ pc' # "deal")
             => round_charged' = round_charged]_vars

\* settlement starts on three hands made by two splits, one of them doubled:
\* the bet was charged four times
C36_Witness ==
    /\ pc = "compare"
    /\ cmp_i = 1
    /\ Len(player_hands) = 3
    /\ round_charged = 4 * bet
    /\ SumWagers(player_hands) = 4 * bet
    /\ \E i, j \in 1..3 : /\ player_hands[i].wager = 2 * bet
                          /\ player_hands[j].wager = bet

\* every hand the round holds: pending, returned, and handed to settlement
RoundHands == PendingHands \o hands \o player_hands \o <<player_hand, dealer_hand>>

\* C37: a surrendered hand has exactly two cards and is the only terminal
\* hand of its round, with nothing left to play; it is answered at split
\* depth 0 only, the dealer's hand is never surrendered, and no hand given to
\* _compare_hands is surrendered: the round ends with half the bet refunded.
C37_SurrenderAlone ==
    /\ [](/\ \A i \in 1..Len(RoundHands) :
                RoundHands[i].surrender => Len(RoundHands[i].cards) = 2
          /\ ~dealer_hand.surrender
          /\ \A i \in 1..Len(stack) : ~stack[i].hand.surrender
          /\ \A i \in 1..Len(hands) :
                hands[i].surrender => Len(hands) = 1 /\ pc \in {"resolved", "bet", "returned"}
          /\ \A i \in 1..Len(player_hands) :
                player_hands[i].surrender
                  => /\ Len(player_hands) = 1
                     /\ pc \in {"bet", "returned"}
                     /\ compare_calls = 0
                     /\ dealer_calls = 0)
    /\ [][/\ PlayerChose(SURRENDER)
             => /\ Head(stack).num_split = 0
                /\ round_actions = 0
                /\ pc' = "resolved"
                /\ hands' = <<surrender(player_hand)>>
          /\ pc = "compare" => ~player_hands[cmp_i].surrender
          /\ (pc = "resolved" /\ hands[1].surrender)
             => /\ pc' = "bet"
                /\ 2 * (bankroll' - bankroll) = bet]_vars

\* a round that ended by surrender: one two-card hand, no dealer play, no
\* comparison, half the bet back
C37_Witness ==
    /\ pc = "bet"
    /\ rounds = 1
    /\ Len(player_hands) = 1
    /\ player_hands[1].surrender
    /\ Len(player_hands[1].cards) = 2
    /\ compare_calls = 0
    /\ dealer_calls = 0
    /\ 2 * (pre_bet - bankroll) = bet

\* C38 as stated: whatever get_bet returns, the bet of every round that play
\* starts is at least min_bet and positive, so placing it never raises the
\* bankroll and never lowers the total wagered.
C38_MinBetEnforced ==
    [][(pc = "bet" /\ pc' = "deal")
         => /\ bet' >= options.min_bet
            /\ bet' > 0
            /\ bankroll' <= bankroll
            /\ total_bet' >= total_bet]_vars

\* play has returned or has been left by an exception
Terminated == pc \in {"returned", "raised"}
\* the rounds a shoe can feed at four cards a round (13 a deck of 52 cards)
RoundsOfShoe == num_cards(options.num_decks) \div 4

\* C39: when every callback returns, play terminates, whatever the bets and
\* the legal actions: the shoe is never refilled; a round draws at least four
\* cards or ends the session; a decision ends a hand or draws a card; the
\* session is over after at most num_cards / 4 rounds (13 a deck), ended by
\* a stop condition or by the empty shoe, at the latest by the cutoff test
\* of the round after.
C39_Terminates ==
    /\ <>Terminated
    /\ [](/\ rounds <= RoundsOfShoe
          /\ ShoeLen(shoe) + 4 * (rounds - 1) + round_draws
               <= num_cards(options.num_decks)
          /\ (pc = "bet" /\ rounds > 0) => round_draws >= 4
          /\ (pc = "bet" /\ rounds = RoundsOfShoe) => AtCutoff(shoe, options)
          /\ pc = "raised" => error = "AssertionError"
          /\ pc = "returned" => result # NoResult)
    /\ [][/\ ShoeLen(shoe') <= ShoeLen(shoe)
          /\ pc # "bet" => ShoeLen(shoe) - ShoeLen(shoe') = round_draws' - round_draws
          /\ pc = "bet" => shoe' = shoe
          /\ AnyAnswers
             => \/ round_draws' > round_draws
                \/ Len(stack') < Len(stack)
                \/ pc' = "raised"
          /\ Terminated => UNCHANGED vars]_vars

\* the session was ended by the cutoff test after as many rounds as the shoe
\* can feed, although the user went on betting
C39_Witness ==
    /\ pc = "returned"
    /\ rounds = RoundsOfShoe
    /\ asked # 0
    /\ bankroll >= asked
    /\ ShoeLen(shoe) = 0
    /\ options.shoe_min_percent = 0

\* this step is a get_action call on Dealer
DealerAnswers == dealer_calls' = dealer_calls + 1
\* the hand is a soft 17
SoftSeventeen(hand) == is_soft(hand) /\ value(hand) = 17

\* C40: the dealer hand that the player's hands are compared with is bust or
\* of value 17..21, and no soft 17 when hit_soft_seventeen is set; the dealer
\* stands only on 17 or more and draws only below 17 or, with
\* hit_soft_seventeen, on a soft 17: never on a hard 17 or on more than 17.
C40_DealerFinal ==
    /\ [](pc = "compare"
            => /\ is_bust(dealer_hand) \/ value(dealer_hand) \in 17..21
               /\ options.hit_soft_seventeen => ~SoftSeventeen(dealer_hand)
               /\ Len(dealer_hand.cards) >= 2)
    /\ [][DealerAnswers
            => LET h == Head(stack).hand
               IN  /\ h = dealer_hand
                   /\ value(h) < 21
                   /\ last'.action \in {HIT, STAND}
                   /\ last'.action = STAND
                        => /\ value(h) >= 17
                           /\ ~(options.hit_soft_seventeen /\ SoftSeventeen(h))
                           /\ pc' = "compare"
                           /\ dealer_hand' = h
                           /\ round_draws' = round_draws
                   /\ last'.action = HIT
                        => /\ \/ value(h) < 17
                              \/ options.hit_soft_seventeen /\ SoftSeventeen(h)
                           /\ pc' # "raised"
                                => /\ round_draws' = round_draws + 1
                                   /\ Len(dealer_hand'.cards) = Len(h.cards) + 1
                   /\ round_draws' > round_draws
                        => ~(value(h) > 17 \/ (value(h) = 17 /\ ~is_soft(h)))]_vars

\* under hit_soft_seventeen the dealer drew on ace and six and the hand it is
\* compared with is not bust
C40_Witness ==
    /\ pc = "compare"
    /\ options.hit_soft_seventeen
    /\ Len(dealer_hand.cards) >= 3
    /\ SoftSeventeen(Hand(SubSeq(dealer_hand.cards, 1, 2), 0))
    /\ ~is_bust(dealer_hand)
    /\ value(dealer_hand) \in 17..21

====
